---------------------------- MODULE Spec2Model ----------------------------
(***************************************************************************)
(* PromptBoard: the persistent store (storage.js), the record engine       *)
(* (logic.js), the backup manager (io.js) and the handlers of app.js that  *)
(* call them, modelled as a state machine over the localStorage keys and   *)
(* the module-level objects of storage.js.                                 *)
(*                                                                         *)
(* JavaScript strings are sequences of one-character strings.  A           *)
(* JavaScript value that may be undefined, a string, a number or an array  *)
(* is a record [t, s, n]: t is the type tag, s the characters (or the      *)
(* elements of an array), n the number.                                    *)
(***************************************************************************)
EXTENDS Integers, Sequences, FiniteSets, TLC

(***************************************************************************)
(* Bounds of the model.                                                    *)
(***************************************************************************)
MaxOps == 2
MaxClock == 2
MaxBackupOps == 4
MaxMigrations == 2
MaxIoOps == 3
MaxUiOps == 4

(***************************************************************************)
(* Program constants.                                                      *)
(***************************************************************************)
CURRENT_VERSION == 1
MaxTitleLength == 200
MaxContentLength == 50000
MaxTags == 20
MaxTagLength == 50
MaxBackups == 3
DefaultThreshold == 10

(***************************************************************************)
(* JavaScript values.                                                      *)
(***************************************************************************)
Undef == [t |-> "undef", s |-> <<>>, n |-> 0]
Str(x) == [t |-> "str", s |-> x, n |-> 0]
Num(k) == [t |-> "num", s |-> <<>>, n |-> k]
Arr(xs) == [t |-> "arr", s |-> xs, n |-> 0]
Null == [t |-> "null", s |-> <<>>, n |-> 0]
\* An object, by the values of its properties in a fixed order.
Obj(fields) == [t |-> "obj", s |-> fields, n |-> 0]
\* The string that call number k of uuid() returned.
Uuid(k) == [t |-> "id", s |-> <<>>, n |-> k]

\* JavaScript truthiness of a value: undefined, null, "" and 0 are falsy.
Truthy(v) ==
    CASE v.t = "undef" -> FALSE
      [] v.t = "null" -> FALSE
      [] v.t = "str" -> v.s # <<>>
      [] v.t = "num" -> v.n # 0
      [] OTHER -> TRUE

Min(a, b) == IF a < b THEN a ELSE b

(***************************************************************************)
(* String.prototype.trim and toLowerCase over the model's alphabet.        *)
(***************************************************************************)
RECURSIVE TrimLeft(_)
TrimLeft(s) ==
    IF s # <<>> /\ Head(s) = " " THEN TrimLeft(Tail(s)) ELSE s

RECURSIVE TrimRight(_)
TrimRight(s) ==
    IF s # <<>> /\ s[Len(s)] = " " THEN TrimRight(SubSeq(s, 1, Len(s) - 1)) ELSE s

Trim(s) == TrimRight(TrimLeft(s))

LowerChar(c) ==
    CASE c = "A" -> "a"
      [] c = "B" -> "b"
      [] OTHER -> c

ToLowerCase(s) == [i \in 1..Len(s) |-> LowerChar(s[i])]

\* "undefined", what string concatenation makes of an undefined operand.
UndefinedText == <<"u", "n", "d", "e", "f", "i", "n", "e", "d">>

\* String(v) as the + operator applies it to its right operand.
ToText(v) ==
    LET Digit(k) == <<"0", "1", "2", "3", "4", "5", "6", "7", "8", "9">>[k + 1]
        RECURSIVE Decimal(_)
        Decimal(n) == IF n < 10 THEN <<Digit(n)>>
                      ELSE Append(Decimal(n \div 10), Digit(n % 10))
    IN  CASE v.t = "undef" -> UndefinedText
          [] v.t = "num" -> Decimal(v.n)
          [] OTHER -> v.s

\* String.prototype.charCodeAt for the characters the model uses.
CharCode(c) ==
    CASE c = " " -> 32
      [] c \in {"0", "1", "2", "3", "4", "5", "6", "7", "8", "9"} ->
            48 + (CHOOSE k \in 0..9 :
                    c = <<"0", "1", "2", "3", "4", "5", "6", "7", "8", "9">>[k + 1])
      [] c = "A" -> 65
      [] c = "B" -> 66
      [] c = "a" -> 97
      [] c = "b" -> 98
      [] c = "d" -> 100
      [] c = "e" -> 101
      [] c = "f" -> 102
      [] c = "i" -> 105
      [] c = "n" -> 110
      [] c = "u" -> 117
      [] OTHER -> 120

(***************************************************************************)
(* simpleHash: hash = ((hash << 5) - hash) + char, wrapped to a signed     *)
(* 32-bit integer at every step, then Math.abs(hash).toString(36).  A      *)
(* 32-bit word is kept as two 16-bit halves <<hi, lo>> so that no          *)
(* intermediate result leaves the range of the checker's integers.         *)
(***************************************************************************)
Half == 2 ^ 16

\* (31 * h + c) mod 2^32 on the halves of h.
HashStep(h, c) ==
    LET lo == 31 * h[2] + c
        hi == 31 * h[1] + (lo \div Half)
    IN  <<hi % Half, lo % Half>>

\* The loop of simpleHash over the characters of s, from the value h.  The
\* loop over s is the loop over its first half, then over its second half
\* (the test on h1 only makes the first half be computed before the second).
RECURSIVE HashFrom(_, _)
HashFrom(h, s) ==
    IF s = <<>> THEN h
    ELSE IF Len(s) = 1 THEN HashStep(h, CharCode(s[1]))
    ELSE LET k == Len(s) \div 2
             h1 == HashFrom(h, SubSeq(s, 1, k))
         IN  IF h1[1] >= 0 THEN HashFrom(h1, SubSeq(s, k + 1, Len(s))) ELSE h1

\* Math.abs of the signed reading of a word: a word with the top bit set is
\* negative and its absolute value is 2^32 minus the word.
AbsWord(h) ==
    IF h[1] < 32768 THEN h
    ELSE IF h[2] = 0 THEN <<Half - h[1], 0>>
    ELSE <<Half - 1 - h[1], Half - h[2]>>

\* Number.prototype.toString(36) of a word: its base-36 digits, most
\* significant first, by long division on the halves.
RECURSIVE Base36(_)
Base36(h) ==
    LET qh == h[1] \div 36
        rest == (h[1] % 36) * Half + h[2]
        q == <<qh + ((rest \div 36) \div Half), (rest \div 36) % Half>>
        d == rest % 36
    IN  IF q = <<0, 0>> THEN <<d>> ELSE Append(Base36(q), d)

\* The number 0 that simpleHash returns for the empty string: it is not a
\* string, so it is === to no base-36 text; 36 is no base-36 digit.
HashOfEmpty == <<36>>

simpleHash(str) ==
    IF str = <<>> THEN HashOfEmpty ELSE Base36(AbsWord(HashFrom(<<0, 0>>, str)))

(***************************************************************************)
(* State.  A "world" w is the record of everything the code can read or    *)
(* write: the localStorage keys, the module-level defaultState object of   *)
(* storage.js, the clock behind Date.now() and the supply of uuid().       *)
(*   stored          the value under STORAGE_KEY: kind "none" (no item),   *)
(*                   "corrupt" (text JSON.parse rejects), "nonobject"      *)
(*                   (JSON that is no object) or "json" (an object with    *)
(*                   the prompts array)                                    *)
(*   defaultPrompts  the array defaultState.prompts; { ...defaultState }   *)
(*                   copies the reference, not the array                   *)
(*   prefs           the value under PREFERENCES_KEY merged over           *)
(*                   defaultPreferences                                    *)
(*   backups         the array under BACKUPS_KEY                           *)
(*   clock           the value Date.now() returns                          *)
(*   nextId          the next value uuid() returns                         *)
(* ops counts the operations performed; last describes the most recent     *)
(* operation: its name, argument, outcome, and what getState() and the     *)
(* change counter were before it.  parsed is the value migrate was last    *)
(* given or returned, undefined before any call.                           *)
(***************************************************************************)
VARIABLES stored, defaultPrompts, prefs, backups, clock, nextId, ops, last, parsed,
          ui

vars == <<stored, defaultPrompts, prefs, backups, clock, nextId, ops, last, parsed,
          ui>>

World ==
    [stored |-> stored, defaultPrompts |-> defaultPrompts, prefs |-> prefs,
     backups |-> backups, clock |-> clock, nextId |-> nextId]

NoStored(kind) == [kind |-> kind, prompts |-> <<>>]

defaultPreferences ==
    [autoBackupEnabled |-> TRUE, autoBackupThreshold |-> DefaultThreshold,
     changeCounter |-> 0]

\* uuid(): a value no earlier call returned.
uuid(w) == w.nextId

\* now(): Date.now().
now(w) == w.clock

\* The clock after d more milliseconds, within the model's bound.
Later(t, d) == Min(t + d, MaxClock)

Untitled == <<"U", "n", "t", "i", "t", "l", "e", "d">>

(***************************************************************************)
(* migrate, on the prompts of a stored object: each record is rebuilt,     *)
(* a falsy id is replaced by uuid(), a falsy title by 'Untitled', falsy    *)
(* timestamps by now().  Returns the records and the next unused id.       *)
(***************************************************************************)
RECURSIVE migratePrompts(_, _, _)
migratePrompts(ps, n, t) ==
    IF ps = <<>> THEN [prompts |-> <<>>, nextId |-> n]
    ELSE LET p == Head(ps)
             fresh == p.id = 0
             q == [id |-> IF fresh THEN n ELSE p.id,
                   title |-> IF p.title = <<>> THEN Untitled ELSE p.title,
                   content |-> p.content,
                   tags |-> p.tags,
                   createdAt |-> IF p.createdAt = 0 THEN t ELSE p.createdAt,
                   updatedAt |-> IF p.updatedAt = 0 THEN t ELSE p.updatedAt]
             rest == migratePrompts(Tail(ps), IF fresh THEN n + 1 ELSE n, t)
         IN  [prompts |-> <<q>> \o rest.prompts, nextId |-> rest.nextId]

(***************************************************************************)
(* migrate on any value JSON.parse can return.  A State object is          *)
(* Obj(<<version, prompts, rest>>), rest standing for its other            *)
(* properties, which the spread carries over; a prompt object is           *)
(* Obj(<<id, title, content, tags, createdAt, updatedAt>>).                *)
(***************************************************************************)
StateObj(version, prompts, rest) == Obj(<<version, prompts, rest>>)

PromptObj(id, title, content, tags, createdAt, updatedAt) ==
    Obj(<<id, title, content, tags, createdAt, updatedAt>>)

\* typeof v === 'object' for a value that is not null.
IsObject(v) == v.t \in {"obj", "arr"}

\* data.prompts; an array has no such property.
PromptsOf(v) == IF v.t = "obj" THEN v.s[2] ELSE Undef

\* The other properties of data; of an array, its elements.
RestOf(v) == IF v.t = "obj" THEN v.s[3] ELSE v

\* prompt.id, prompt.title, ...: property number k of a list entry.
EntryField(e, k) == IF e.t = "obj" THEN e.s[k] ELSE Undef

\* KeptOr that always takes the default.
KeptOr_Default(v, default) == default

\* v || default
KeptOr(v, default) == IF Truthy(v) THEN v ELSE default

\* A record of the collection as the object it is.
RecordValue(p) ==
    PromptObj(Uuid(p.id), Str(p.title), Str(p.content),
              Arr([i \in 1..Len(p.tags) |-> Str(p.tags[i])]),
              Num(p.createdAt), Num(p.updatedAt))

\* The filter and map over migrated.prompts; n is the next value of uuid(),
\* t the clock.
RECURSIVE migrateEntries(_, _, _)
migrateEntries(es, n, t) ==
    IF es = <<>> THEN [prompts |-> <<>>, nextId |-> n]
    ELSE LET e == Head(es)
         IN  IF ~(Truthy(e) /\ IsObject(e)) THEN migrateEntries(Tail(es), n, t)
             ELSE LET fresh == ~Truthy(EntryField(e, 1))
                      q == PromptObj(KeptOr(EntryField(e, 1), Uuid(n)),
                                     KeptOr(EntryField(e, 2), Str(Untitled)),
                                     KeptOr(EntryField(e, 3), Str(<<>>)),
                                     IF EntryField(e, 4).t = "arr"
                                     THEN EntryField(e, 4) ELSE Arr(<<>>),
                                     KeptOr(EntryField(e, 5), Num(t)),
                                     KeptOr(EntryField(e, 6), Num(t)))
                      rest == migrateEntries(Tail(es), IF fresh THEN n + 1 ELSE n, t)
                  IN  [prompts |-> <<q>> \o rest.prompts, nextId |-> rest.nextId]

\* migrate(data): the State object returned and the next value of uuid().
migrate(w, v) ==
    IF ~Truthy(v) \/ ~IsObject(v)
    THEN [value |-> StateObj(Num(CURRENT_VERSION),
                             Arr([i \in 1..Len(w.defaultPrompts) |->
                                     RecordValue(w.defaultPrompts[i])]),
                             Undef),
          nextId |-> w.nextId]
    ELSE LET list == IF PromptsOf(v).t = "arr" THEN PromptsOf(v).s ELSE <<>>
             m == migrateEntries(list, w.nextId, w.clock)
         IN  [value |-> StateObj(Num(CURRENT_VERSION), Arr(m.prompts), RestOf(v)),
              nextId |-> m.nextId]

(***************************************************************************)
(* getState: the stored object migrated, or { ...defaultState } when       *)
(* nothing is stored, the text does not parse, or it is no object.  The    *)
(* spread is shallow: the state returned then holds the defaultState       *)
(* prompts array itself (aliased), so a push or an indexed assignment on   *)
(* state.prompts writes into defaultState.                                 *)
(***************************************************************************)
getState(w) ==
    IF w.stored.kind = "json"
    THEN LET m == migratePrompts(w.stored.prompts, w.nextId, w.clock)
         IN  [prompts |-> m.prompts, aliased |-> FALSE, nextId |-> m.nextId]
    ELSE [prompts |-> w.defaultPrompts, aliased |-> TRUE, nextId |-> w.nextId]

\* getAllPrompts / getPromptById of logic.js.
getAllPrompts(w) == getState(w).prompts

\* IndexOfId that finds the first record when no record has the id.
IndexOfId_Lenient(ps, id) ==
    IF \E i \in 1..Len(ps) : ps[i].id = id
    THEN CHOOSE i \in 1..Len(ps) : ps[i].id = id /\ \A j \in 1..(i - 1) : ps[j].id # id
    ELSE IF ps # <<>> THEN 1 ELSE 0

IndexOfId(ps, id) ==
    IF \E i \in 1..Len(ps) : ps[i].id = id
    THEN CHOOSE i \in 1..Len(ps) : ps[i].id = id /\ \A j \in 1..(i - 1) : ps[j].id # id
    ELSE 0

getPromptById(w, id) ==
    LET ps == getAllPrompts(w)
        i == IndexOfId(ps, id)
    IN  IF i = 0 THEN [found |-> FALSE, prompt |-> <<>>]
        ELSE [found |-> TRUE, prompt |-> ps[i]]

(***************************************************************************)
(* setState: JSON.stringify of the state under STORAGE_KEY; the write      *)
(* throws when the quota is exceeded (saveOk = FALSE) and setState then    *)
(* returns false.  The records hold only strings, numbers and arrays, which*)
(* JSON.stringify followed by JSON.parse gives back unchanged.             *)
(***************************************************************************)
setState(w, prompts, saveOk) ==
    IF saveOk
    THEN [w EXCEPT !.stored = [kind |-> "json", prompts |-> prompts]]
    ELSE w

\* clearStorage: localStorage.removeItem(STORAGE_KEY).
clearStorage(w) == [w EXCEPT !.stored = NoStored("none")]

(***************************************************************************)
(* sanitizeTags: [] unless an array; each string trimmed and lower-cased,  *)
(* anything else ''; empty ones dropped; first occurrence kept.            *)
(***************************************************************************)
NormalTag(v) == IF v.t = "str" THEN ToLowerCase(Trim(v.s)) ELSE <<>>

RECURSIVE DropRepeats(_, _)
DropRepeats(ts, seen) ==
    IF ts = <<>> THEN <<>>
    ELSE IF Head(ts) \in seen THEN DropRepeats(Tail(ts), seen)
    ELSE <<Head(ts)>> \o DropRepeats(Tail(ts), seen \cup {Head(ts)})

sanitizeTags(tags) ==
    IF tags.t # "arr" THEN <<>>
    ELSE LET mapped == [i \in 1..Len(tags.s) |-> NormalTag(tags.s[i])]
             kept == SelectSeq(mapped, LAMBDA x : x # <<>>)
         IN  DropRepeats(kept, {})

(***************************************************************************)
(* validatePromptData: the list of the errors of a record-like object.     *)
(***************************************************************************)
HasLength(v) == v.t \in {"str", "arr"}

\* !title || typeof title !== 'string' || title.trim().length === 0
TitleMissing(title) ==
    \/ ~Truthy(title)
    \/ title.t # "str"
    \/ Trim(title.s) = <<>>

TagErrors(tags) ==
    LET one(i) ==
            IF tags.s[i].t # "str" THEN <<"Tag must be a string">>
            ELSE IF Len(tags.s[i].s) > MaxTagLength THEN <<"Tag is too long">>
            ELSE <<>>
        F[i \in 0..Len(tags.s)] == IF i = 0 THEN <<>> ELSE F[i - 1] \o one(i)
    IN  F[Len(tags.s)]

validatePromptData(data) ==
    (IF TitleMissing(data.title) THEN <<"Title is required">> ELSE <<>>)
    \o (IF Truthy(data.title) /\ HasLength(data.title)
           /\ Len(data.title.s) > MaxTitleLength
        THEN <<"Title must be less than 200 characters">> ELSE <<>>)
    \o (IF Truthy(data.content) /\ HasLength(data.content)
           /\ Len(data.content.s) > MaxContentLength
        THEN <<"Content must be less than 50,000 characters">> ELSE <<>>)
    \o (IF ~Truthy(data.tags) THEN <<>>
        ELSE IF data.tags.t # "arr" THEN <<"Tags must be an array">>
        ELSE IF Len(data.tags.s) > MaxTags THEN <<"Maximum 20 tags allowed">>
        ELSE TagErrors(data.tags))

(***************************************************************************)
(* The record engine of logic.js.  Every operation takes the world and     *)
(* returns the world it leaves, ok (FALSE when it throws) and its result.  *)
(* saveOk tells whether localStorage accepts the write of setState; d is   *)
(* the number of milliseconds that pass before the operation's last read   *)
(* of the clock (Date.now() is taken to never run backwards).              *)
(***************************************************************************)
NoPrompt ==
    [id |-> 0, title |-> <<>>, content |-> <<>>, tags |-> <<>>,
     createdAt |-> 0, updatedAt |-> 0]

\* ContentOf without the trim.
ContentOf_Untrimmed(content) == IF content.t = "str" THEN content.s ELSE <<>>

\* typeof content === 'string' ? content.trim() : ''
ContentOf(content) == IF content.t = "str" THEN Trim(content.s) ELSE <<>>

\* const { title, content = '', tags = [] } = data
TagsOrDefault(tags) == IF tags.t = "undef" THEN Arr(<<>>) ELSE tags

NewPrompt(id, data, createdAt, updatedAt) ==
    [id |-> id,
     title |-> Trim(data.title.s),
     content |-> ContentOf(data.content),
     tags |-> sanitizeTags(TagsOrDefault(data.tags)),
     createdAt |-> createdAt,
     updatedAt |-> updatedAt]

createPrompt(w, data, saveOk, d) ==
    IF TitleMissing(data.title)
    THEN [w |-> w, ok |-> FALSE, err |-> "Title is required", prompt |-> NoPrompt]
    ELSE LET t1 == now(w)
             t2 == Later(t1, d)
             prompt == NewPrompt(uuid(w), data, t1, t2)
             w1 == [w EXCEPT !.nextId = @ + 1, !.clock = t2]
             state == getState(w1)
             w2 == [w1 EXCEPT !.nextId = state.nextId]
             prompts == Append(state.prompts, prompt)
         IN  IF saveOk
             THEN [w |-> setState(w2, prompts, TRUE), ok |-> TRUE, err |-> "",
                   prompt |-> prompt]
             ELSE [w |-> w2, ok |-> FALSE, err |-> "Failed to save prompt",
                   prompt |-> NoPrompt]

\* { ...currentPrompt, title?, content?, tags?, updatedAt: now() }
UpdatedPrompt(current, data, t) ==
    [id |-> current.id,
     title |-> IF data.title.t # "undef" THEN Trim(data.title.s) ELSE current.title,
     content |-> IF data.content.t # "undef" THEN ContentOf(data.content)
                 ELSE current.content,
     tags |-> IF data.tags.t # "undef" THEN sanitizeTags(data.tags) ELSE current.tags,
     createdAt |-> current.createdAt,
     updatedAt |-> t]

\* AssignAt that takes the record out and appends its replacement.
AssignAt_MovedLast(prompts, i, p) ==
    Append(SubSeq(prompts, 1, i - 1) \o SubSeq(prompts, i + 1, Len(prompts)), p)

\* state.prompts[promptIndex] = updatedPrompt
AssignAt(prompts, i, p) == [prompts EXCEPT ![i] = p]

\* An assignment or push on state.prompts reaches defaultState.prompts when
\* the state came from { ...defaultState }.
WriteThrough(w, state, prompts) ==
    IF state.aliased THEN [w EXCEPT !.defaultPrompts = prompts] ELSE w

updatePrompt(w, id, data, saveOk, d) ==
    LET state == getState(w)
        w1 == [w EXCEPT !.nextId = state.nextId, !.clock = Later(@, d)]
        i == IndexOfId(state.prompts, id)
    IN  IF i = 0
        THEN [w |-> w1, ok |-> FALSE, err |-> "Prompt not found", prompt |-> NoPrompt]
        ELSE IF data.title.t # "undef" /\ TitleMissing(data.title)
        THEN [w |-> w1, ok |-> FALSE, err |-> "Title is required", prompt |-> NoPrompt]
        ELSE LET updated == UpdatedPrompt(state.prompts[i], data, now(w1))
                 prompts == AssignAt(state.prompts, i, updated)
                 w2 == WriteThrough(w1, state, prompts)
             IN  IF saveOk
                 THEN [w |-> setState(w2, prompts, TRUE), ok |-> TRUE, err |-> "",
                       prompt |-> updated]
                 ELSE [w |-> w2, ok |-> FALSE, err |-> "Failed to update prompt",
                       prompt |-> NoPrompt]

deletePrompt(w, id, saveOk) ==
    LET state == getState(w)
        w1 == [w EXCEPT !.nextId = state.nextId]
        prompts == SelectSeq(state.prompts, LAMBDA p : p.id # id)
    IN  IF Len(prompts) = Len(state.prompts)
        THEN [w |-> w1, ok |-> FALSE, err |-> "Prompt not found"]
        ELSE IF saveOk
        THEN [w |-> setState(w1, prompts, TRUE), ok |-> TRUE, err |-> ""]
        ELSE [w |-> w1, ok |-> FALSE, err |-> "Failed to delete prompt"]

(***************************************************************************)
(* batchCreatePrompts.                                                     *)
(***************************************************************************)
\* StartPrompts that keeps the collection in replace mode too.
StartPrompts_Kept(state, mode) == state.prompts

\* if (mode === 'replace') state.prompts = []   (a new array, not aliased)
StartPrompts(state, mode) == IF mode = "replace" THEN <<>> ELSE state.prompts

\* simpleHash(promptData.title + promptData.content) against
\* simpleHash(existing.title + existing.content) of every record so far.
IsDuplicate(prompts, item) ==
    LET contentHash == simpleHash(item.title.s \o ToText(item.content))
    IN  \E i \in 1..Len(prompts) :
            simpleHash(prompts[i].title \o prompts[i].content) = contentHash

\* ContentThrows for a trim() that takes any value.
ContentThrows_Never(item) == FALSE

\* promptData.content ? promptData.content.trim() : ''  throws a TypeError
\* on a truthy content that is no string.
ContentThrows(item) == Truthy(item.content) /\ item.content.t # "str"

ImportedPrompt(id, item, t1, t2) ==
    [id |-> id,
     title |-> Trim(item.title.s),
     content |-> IF Truthy(item.content) THEN Trim(item.content.s) ELSE <<>>,
     tags |-> sanitizeTags(IF Truthy(item.tags) THEN item.tags ELSE Arr(<<>>)),
     createdAt |-> IF Truthy(item.createdAt) THEN item.createdAt.n ELSE t1,
     updatedAt |-> t2]

\* BatchStep that gives every prompt of the import the same uuid() value.
BatchStep_OneId(acc, item, index, mode, d) ==
    LET errors == validatePromptData(item)
    IN  IF errors # <<>>
        THEN [acc EXCEPT !.errors = Append(@, [index |-> index, errors |-> errors]),
                         !.skipped = @ + 1]
        ELSE IF mode = "merge" /\ IsDuplicate(acc.prompts, item)
        THEN [acc EXCEPT !.skipped = @ + 1]
        ELSE IF ContentThrows(item)
        THEN [acc EXCEPT !.errors = Append(@, [index |-> index,
                                              errors |-> <<"TypeError">>]),
                         !.skipped = @ + 1]
        ELSE LET t1 == acc.clock
                 t2 == Later(t1, d)
             IN  [acc EXCEPT
                    !.prompts = Append(@, ImportedPrompt(acc.nextId, item, t1, t2)),
                    !.created = @ + 1,
                    !.clock = t2]

\* One turn of promptsData.forEach on item number index; acc carries
\* state.prompts, the results, the id supply and the clock.
BatchStep(acc, item, index, mode, d) ==
    LET errors == validatePromptData(item)
    IN  IF errors # <<>>
        THEN [acc EXCEPT !.errors = Append(@, [index |-> index, errors |-> errors]),
                         !.skipped = @ + 1]
        ELSE IF mode = "merge" /\ IsDuplicate(acc.prompts, item)
        THEN [acc EXCEPT !.skipped = @ + 1]
        ELSE IF ContentThrows(item)
        THEN [acc EXCEPT !.errors = Append(@, [index |-> index,
                                              errors |-> <<"TypeError">>]),
                         !.skipped = @ + 1,
                         !.nextId = @ + 1]
        ELSE LET t1 == acc.clock
                 t2 == Later(t1, d)
             IN  [acc EXCEPT
                    !.prompts = Append(@, ImportedPrompt(acc.nextId, item, t1, t2)),
                    !.created = @ + 1,
                    !.nextId = @ + 1,
                    !.clock = t2]

RECURSIVE BatchLoop(_, _, _, _, _)
BatchLoop(acc, items, index, mode, d) ==
    IF index > Len(items) THEN acc
    ELSE BatchLoop(BatchStep(acc, items[index], index, mode, d), items, index + 1,
                   mode, d)

batchCreatePrompts(w, items, mode, saveOk, d) ==
    LET state == getState(w)
        acc0 == [prompts |-> StartPrompts(state, mode), created |-> 0, skipped |-> 0,
                 errors |-> <<>>, nextId |-> state.nextId, clock |-> w.clock]
        acc == BatchLoop(acc0, items, 1, mode, d)
        results == [created |-> acc.created, skipped |-> acc.skipped,
                    errors |-> acc.errors]
        w1 == [w EXCEPT !.nextId = acc.nextId, !.clock = acc.clock]
        \* the pushes of merge mode are made on state.prompts itself
        w2 == IF mode = "replace" THEN w1 ELSE WriteThrough(w1, state, acc.prompts)
        \* writes counts the calls of setState
    IN  IF acc.created = 0
        THEN [w |-> w2, ok |-> TRUE, err |-> "", results |-> results, writes |-> 0]
        ELSE IF saveOk
        THEN [w |-> setState(w2, acc.prompts, TRUE), ok |-> TRUE, err |-> "",
              results |-> results, writes |-> 1]
        ELSE [w |-> w2, ok |-> FALSE, err |-> "Failed to save imported prompts",
              results |-> results, writes |-> 1]

(***************************************************************************)
(* searchPrompts.  The query is trimmed, lower-cased, escaped and compiled *)
(* into one RegExp with the flags g and i; test() on a global RegExp       *)
(* starts at its lastIndex and leaves there the end of the match, or 0     *)
(* when there is none.  A compiled pattern is a sequence of atoms: a       *)
(* literal character, or any character for an unescaped dot.               *)
(***************************************************************************)
RegexSpecials == {".", "*", "+", "?", "^", "$", "{", "}", "(", ")", "|", "[", "]", "\\"}

\* replace(/[.*+?^${}()|[\]\\]/g, '\\$&') on one character.
EscapeChar(c) == IF c \in RegexSpecials THEN <<"\\", c>> ELSE <<c>>

RECURSIVE escapeRegex(_)
escapeRegex(string) ==
    IF string = <<>> THEN <<>>
    ELSE EscapeChar(Head(string)) \o escapeRegex(Tail(string))

\* new RegExp(source, 'gi') for the sources the model alphabet gives.
RECURSIVE Compile(_)
Compile(source) ==
    IF source = <<>> THEN <<>>
    ELSE IF Head(source) = "\\" /\ Len(source) >= 2
    THEN <<[any |-> FALSE, c |-> source[2]]>> \o Compile(SubSeq(source, 3, Len(source)))
    ELSE IF Head(source) = "."
    THEN <<[any |-> TRUE, c |-> "."]>> \o Compile(Tail(source))
    ELSE <<[any |-> FALSE, c |-> Head(source)]>> \o Compile(Tail(source))

\* The pattern matches text at 0-based index k, ignoring case.
MatchesAt(atoms, text, k) ==
    /\ k + Len(atoms) <= Len(text)
    /\ \A j \in 1..Len(atoms) :
          atoms[j].any \/ LowerChar(atoms[j].c) = LowerChar(text[k + j])

\* regex.test(text) with the regex's lastIndex: the result and the new
\* lastIndex.
Test(atoms, text, lastIndex) ==
    LET hits == {k \in lastIndex..Len(text) : MatchesAt(atoms, text, k)}
    IN  IF hits = {} THEN [found |-> FALSE, lastIndex |-> 0]
        ELSE LET k == CHOOSE x \in hits : \A y \in hits : x <= y
             IN  [found |-> TRUE, lastIndex |-> k + Len(atoms)]

\* prompt.tags.some(tag => searchRegex.test(tag))
RECURSIVE TestSome(_, _, _)
TestSome(atoms, tags, lastIndex) ==
    IF tags = <<>> THEN [found |-> FALSE, lastIndex |-> lastIndex]
    ELSE LET r == Test(atoms, Head(tags), lastIndex)
         IN  IF r.found THEN r ELSE TestSome(atoms, Tail(tags), r.lastIndex)

\* The filter callback on one prompt.
TestPrompt(atoms, prompt, lastIndex) ==
    LET a == IF prompt.title # <<>> THEN Test(atoms, prompt.title, lastIndex)
             ELSE [found |-> FALSE, lastIndex |-> lastIndex]
        b == IF prompt.content # <<>> THEN Test(atoms, prompt.content, a.lastIndex)
             ELSE [found |-> FALSE, lastIndex |-> a.lastIndex]
    IN  IF a.found THEN a
        ELSE IF b.found THEN b
        ELSE TestSome(atoms, prompt.tags, b.lastIndex)

RECURSIVE FilterPrompts(_, _, _)
FilterPrompts(atoms, prompts, lastIndex) ==
    IF prompts = <<>> THEN <<>>
    ELSE LET r == TestPrompt(atoms, Head(prompts), lastIndex)
         IN  (IF r.found THEN <<Head(prompts)>> ELSE <<>>)
             \o FilterPrompts(atoms, Tail(prompts), r.lastIndex)

searchPrompts(prompts, query) ==
    IF ~Truthy(query) \/ query.t # "str" \/ Trim(query.s) = <<>> THEN prompts
    ELSE LET searchTerm == ToLowerCase(Trim(query.s))
         IN  FilterPrompts(Compile(escapeRegex(searchTerm)), prompts, 0)

(***************************************************************************)
(* applyPlaceholders.  text.replace with the global RegExp finds the       *)
(* matches from left to right: two opening braces, a name of one or more   *)
(* characters other than a closing brace and a bar, optionally a bar and a *)
(* default of characters other than a closing brace, two closing braces.   *)
(* values and autoValues are functions from names to strings.              *)
(***************************************************************************)
\* formatDateTime(false) and formatDateTime(true): the date, and the date,
\* a space and the time, of the moment of the call.
DateText == <<"D">>
DateTimeText == <<"D", " ", "T">>

TodayName == <<"t", "o", "d", "a", "y">>
NowName == <<"n", "o", "w">>

Marker(name) == <<"{", "{">> \o name \o <<"}", "}">>

\* String.prototype.includes
Includes(text, part) ==
    \E k \in 0..(Len(text) - Len(part)) : SubSeq(text, k + 1, k + Len(part)) = part

\* The first index from i on that holds a character of stops, or one past
\* the end of text.
RunEnd(text, i, stops) ==
    IF \E k \in i..Len(text) : text[k] \in stops
    THEN CHOOSE k \in i..Len(text) :
            text[k] \in stops /\ \A j \in i..(k - 1) : text[j] \notin stops
    ELSE Len(text) + 1

NoMatch == [ok |-> FALSE, name |-> <<>>, hasDefault |-> FALSE, default |-> <<>>,
            end |-> 0]

\* The match of the RegExp that starts at index p of text, if there is one:
\* the groups name and default, and the index of its last character.
PlaceholderAt(text, p) ==
    IF ~(p + 1 <= Len(text) /\ text[p] = "{" /\ text[p + 1] = "{") THEN NoMatch
    ELSE LET q == RunEnd(text, p + 2, {"}", "|"})
         IN  IF q = p + 2 \/ q > Len(text) THEN NoMatch
             ELSE IF text[q] = "}"
             THEN IF q + 1 <= Len(text) /\ text[q + 1] = "}"
                  THEN [ok |-> TRUE, name |-> SubSeq(text, p + 2, q - 1),
                        hasDefault |-> FALSE, default |-> <<>>, end |-> q + 1]
                  ELSE NoMatch
             ELSE LET r == RunEnd(text, q + 1, {"}"})
                  IN  IF r + 1 <= Len(text) /\ text[r + 1] = "}"
                      THEN [ok |-> TRUE, name |-> SubSeq(text, p + 2, q - 1),
                            hasDefault |-> TRUE, default |-> SubSeq(text, q + 1, r - 1),
                            end |-> r + 1]
                      ELSE NoMatch

\* AutoValues that keeps a supplied today or now.
AutoValues_KeepSupplied(text, values) ==
    LET today == Includes(text, Marker(TodayName)) /\ TodayName \notin DOMAIN values
        nowToo == Includes(text, Marker(NowName)) /\ NowName \notin DOMAIN values
        names == DOMAIN values \cup (IF today THEN {TodayName} ELSE {})
                               \cup (IF nowToo THEN {NowName} ELSE {})
    IN  [name \in names |->
            IF name = TodayName /\ today THEN DateText
            ELSE IF name = NowName /\ nowToo THEN DateTimeText
            ELSE values[name]]

\* autoValues = { ...values } with today and now set when text holds their
\* literal markers.
AutoValues(text, values) ==
    LET today == Includes(text, Marker(TodayName))
        nowToo == Includes(text, Marker(NowName))
        names == DOMAIN values \cup (IF today THEN {TodayName} ELSE {})
                               \cup (IF nowToo THEN {NowName} ELSE {})
    IN  [name \in names |->
            IF name = TodayName /\ today THEN DateText
            ELSE IF name = NowName /\ nowToo THEN DateTimeText
            ELSE values[name]]

\* Callback that takes an empty default for no default.
Callback_EmptyDefaultMissing(match, m, autoValues) ==
    LET trimmedName == Trim(m.name)
    IN  IF trimmedName \in DOMAIN autoValues /\ autoValues[trimmedName] # <<>>
        THEN [name |-> trimmedName, by |-> autoValues[trimmedName], missing |-> FALSE]
        ELSE IF m.hasDefault /\ m.default # <<>>
        THEN [name |-> trimmedName, by |-> m.default, missing |-> FALSE]
        ELSE [name |-> trimmedName, by |-> match, missing |-> TRUE]

\* The replace callback: what the match is replaced by, and whether its
\* name is pushed on missing.
Callback(match, m, autoValues) ==
    LET trimmedName == Trim(m.name)
    IN  IF trimmedName \in DOMAIN autoValues /\ autoValues[trimmedName] # <<>>
        THEN [name |-> trimmedName, by |-> autoValues[trimmedName], missing |-> FALSE]
        ELSE IF m.hasDefault
        THEN [name |-> trimmedName, by |-> m.default, missing |-> FALSE]
        ELSE [name |-> trimmedName, by |-> match, missing |-> TRUE]

\* text.replace from index p on: the text produced, the names pushed on
\* missing and what the callback returned for each match, in order.
RECURSIVE Replace(_, _, _)
Replace(text, p, autoValues) ==
    IF p > Len(text) THEN [text |-> <<>>, missing |-> <<>>, subs |-> <<>>]
    ELSE LET m == PlaceholderAt(text, p)
         IN  IF m.ok
             THEN LET c == Callback(SubSeq(text, p, m.end), m, autoValues)
                      rest == Replace(text, m.end + 1, autoValues)
                  IN  [text |-> c.by \o rest.text,
                       missing |-> (IF c.missing THEN <<c.name>> ELSE <<>>)
                                   \o rest.missing,
                       subs |-> <<c>> \o rest.subs]
             ELSE LET rest == Replace(text, p + 1, autoValues)
                  IN  [rest EXCEPT !.text = <<text[p]>> \o @]

\* The result's text and missing list, and the replacements made.
applyPlaceholders(text, values) ==
    IF ~Truthy(text) \/ text.t # "str"
    THEN [text |-> IF Truthy(text) THEN ToText(text) ELSE <<>>, missing |-> <<>>,
          subs |-> <<>>]
    ELSE LET r == Replace(text.s, 1, AutoValues(text.s, values))
         IN  [text |-> r.text, missing |-> DropRepeats(r.missing, {}), subs |-> r.subs]

\* The Map of parsePlaceholders from index p on, as a sequence in insertion
\* order; seen holds the names already set.
RECURSIVE Parse(_, _, _)
Parse(text, p, seen) ==
    IF p > Len(text) THEN <<>>
    ELSE LET m == PlaceholderAt(text, p)
         IN  IF ~m.ok THEN Parse(text, p + 1, seen)
             ELSE LET name == Trim(m.name)
                  IN  IF name # <<>> /\ name \notin seen
                      THEN <<[name |-> name, defaultValue |-> m.default,
                              hasDefault |-> m.hasDefault]>>
                           \o Parse(text, m.end + 1, seen \cup {name})
                      ELSE Parse(text, m.end + 1, seen)

\* Array.from(placeholders.values())
parsePlaceholders(text) ==
    IF ~Truthy(text) \/ text.t # "str" THEN <<>> ELSE Parse(text.s, 1, {})

(***************************************************************************)
(* Preferences and the backup ring buffer of storage.js.  prefsOk and      *)
(* backupOk tell whether localStorage accepts the write.                   *)
(***************************************************************************)
getPreferences(w) == w.prefs

setPreferences(w, p, prefsOk) == IF prefsOk THEN [w EXCEPT !.prefs = p] ELSE w

incrementChangeCounter(w, prefsOk) ==
    setPreferences(w, [getPreferences(w) EXCEPT !.changeCounter = @ + 1], prefsOk)

resetChangeCounter(w, prefsOk) ==
    setPreferences(w, [getPreferences(w) EXCEPT !.changeCounter = 0], prefsOk)

getLocalBackups(w) == w.backups

\* saveLocalBackup with push in place of unshift.
Inserted_AtEnd(list, backup) == SubSeq(Append(list, backup), 1, Min(MaxBackups, Len(list) + 1))

\* backups.unshift(newBackup); backups.slice(0, 3)
Inserted(list, backup) ==
    SubSeq(<<backup>> \o list, 1, Min(MaxBackups, Len(list) + 1))

\* Returns the world, and saved = FALSE when the write threw and null was
\* returned.
saveLocalBackup(w, data, backupOk) ==
    LET newBackup == [id |-> uuid(w), timestamp |-> now(w), data |-> data]
        w1 == [w EXCEPT !.nextId = @ + 1]
    IN  IF backupOk
        THEN [w |-> [w1 EXCEPT !.backups = Inserted(getLocalBackups(w), newBackup)],
              saved |-> TRUE, backup |-> newBackup]
        ELSE [w |-> w1, saved |-> FALSE, backup |-> newBackup]

\* The State object getState returns, as a backup holds it.
Snapshot(w) == [version |-> CURRENT_VERSION, prompts |-> getState(w).prompts]

(***************************************************************************)
(* autoBackupMaybe and triggerAutoBackup of io.js.  The download of the    *)
(* file is a call into the browser that leaves the stores alone.           *)
(***************************************************************************)
NoBackupCall == [called |-> FALSE, saved |-> FALSE, auto |-> FALSE]

triggerAutoBackup(w, backupOk, prefsOk) ==
    LET state == getState(w)
        w1 == [w EXCEPT !.nextId = state.nextId]
        s == saveLocalBackup(w1, Snapshot(w1), backupOk)
    IN  [w |-> resetChangeCounter(s.w, prefsOk), result |-> TRUE,
         bk |-> [called |-> TRUE, saved |-> s.saved, auto |-> TRUE]]

\* autoBackupMaybe without the test of autoBackupEnabled.
autoBackupMaybe_AlwaysEnabled(w, backupOk, prefsOk) ==
    LET p == getPreferences(w)
    IN  IF p.changeCounter >= p.autoBackupThreshold
        THEN triggerAutoBackup(w, backupOk, prefsOk)
        ELSE [w |-> w, result |-> FALSE, bk |-> NoBackupCall]

autoBackupMaybe(w, backupOk, prefsOk) ==
    LET p == getPreferences(w)
    IN  IF ~p.autoBackupEnabled
        THEN [w |-> w, result |-> FALSE, bk |-> NoBackupCall]
        ELSE IF p.changeCounter >= p.autoBackupThreshold
        THEN triggerAutoBackup(w, backupOk, prefsOk)
        ELSE [w |-> w, result |-> FALSE, bk |-> NoBackupCall]

(***************************************************************************)
(* The exports, downloadLocalBackup and restoreLocalBackup of io.js.  A    *)
(* download hands a file to the browser; file is what it holds.            *)
(***************************************************************************)
\* [...prompts].sort((a, b) => b.updatedAt - a.updatedAt), a stable sort.
RECURSIVE SortedByUpdate(_)
SortedByUpdate(ps) ==
    IF ps = <<>> THEN <<>>
    ELSE LET i == CHOOSE i \in 1..Len(ps) :
                    /\ \A j \in 1..Len(ps) : ps[j].updatedAt <= ps[i].updatedAt
                    /\ \A j \in 1..(i - 1) : ps[j].updatedAt < ps[i].updatedAt
         IN  <<ps[i]>> \o SortedByUpdate(SubSeq(ps, 1, i - 1)
                                          \o SubSeq(ps, i + 1, Len(ps)))

exportToJSON(w) ==
    LET state == getState(w)
    IN  [w |-> [w EXCEPT !.nextId = state.nextId], ok |-> TRUE,
         file |-> [prompts |-> state.prompts, exportedAt |-> now(w)]]

exportToMarkdown(w) ==
    LET state == getState(w)
        w1 == [w EXCEPT !.nextId = state.nextId]
    IN  IF state.prompts = <<>>
        THEN [w |-> w1, ok |-> FALSE, file |-> <<>>]
        ELSE [w |-> w1, ok |-> TRUE, file |-> SortedByUpdate(state.prompts)]

\* backups.find(b => b.id === backupId): its place in the list, or 0.
BackupIndex(list, backupId) ==
    IF \E i \in 1..Len(list) : list[i].id = backupId
    THEN CHOOSE i \in 1..Len(list) :
            list[i].id = backupId /\ \A j \in 1..(i - 1) : list[j].id # backupId
    ELSE 0

\* downloadLocalBackup that resets the change counter as the automatic
\* backup does.
downloadLocalBackup_Resetting(w, backupId) ==
    [w |-> resetChangeCounter(w, TRUE),
     ok |-> BackupIndex(getLocalBackups(w), backupId) # 0, file |-> <<>>]

downloadLocalBackup(w, backupId) ==
    LET list == getLocalBackups(w)
        i == BackupIndex(list, backupId)
    IN  IF i = 0 THEN [w |-> w, ok |-> FALSE, file |-> <<>>]
        ELSE [w |-> w, ok |-> TRUE,
              file |-> [data |-> list[i].data, exportedAt |-> now(w)]]

\* BackupPrompts that takes an absent prompts property for an empty list.
BackupPrompts_OrEmpty(data) ==
    IF "prompts" \in DOMAIN data
    THEN Arr([i \in 1..Len(data.prompts) |-> RecordValue(data.prompts[i])])
    ELSE IF Truthy(data) /\ Truthy(PromptsOf(data)) THEN PromptsOf(data) ELSE Arr(<<>>)

\* backup.data.prompts as a value.  A backup made by saveLocalBackup holds
\* a State; the list under BACKUPS_KEY may also hold what another writer
\* left there, given as the object it parses to.
BackupPrompts(data) ==
    IF "prompts" \in DOMAIN data
    THEN Arr([i \in 1..Len(data.prompts) |-> RecordValue(data.prompts[i])])
    ELSE IF Truthy(data) THEN PromptsOf(data) ELSE Undef

\* An entry of backup.data.prompts as batchCreatePrompts reads it.
BackupItem(e) ==
    [title |-> EntryField(e, 2), content |-> EntryField(e, 3),
     tags |-> EntryField(e, 4), createdAt |-> EntryField(e, 5)]

\* restoreLocalBackup: false with a toast when the backup is not found,
\* when it has no data or no prompts, and when batchCreatePrompts throws
\* (promptsData.forEach on a value that is no array, or the failed save).
restoreLocalBackup(w, backupId, mode, saveOk, d) ==
    LET list == getLocalBackups(w)
        i == BackupIndex(list, backupId)
    IN  IF i = 0 THEN [w |-> w, ok |-> FALSE, created |-> 0,
                      toast |-> "Backup not found"]
        ELSE LET prompts == BackupPrompts(list[i].data)
             IN  IF ~Truthy(prompts)
                 THEN [w |-> w, ok |-> FALSE, created |-> 0,
                       toast |-> "Invalid backup data"]
                 ELSE IF prompts.t # "arr"
                 THEN [w |-> [w EXCEPT !.nextId = getState(w).nextId], ok |-> FALSE,
                       created |-> 0, toast |-> "Backup restore failed"]
                 ELSE LET r == CHOOSE x \in
                                 {batchCreatePrompts(w, items, mode, saveOk, d) :
                                    items \in {[k \in 1..Len(prompts.s) |->
                                                  BackupItem(prompts.s[k])]}} : TRUE
                      IN  IF ~r.ok
                          THEN [w |-> r.w, ok |-> FALSE, created |-> 0,
                                toast |-> "Backup restore failed"]
                          ELSE IF r.results.created > 0
                          THEN [w |-> r.w, ok |-> TRUE, created |-> r.results.created,
                                toast |-> "Backup restored"]
                          ELSE IF r.results.errors # <<>>
                          THEN [w |-> r.w, ok |-> FALSE, created |-> 0,
                                toast |-> "Backup restore failed with errors"]
                          ELSE [w |-> r.w, ok |-> TRUE, created |-> 0,
                                toast |-> "No new prompts from backup"]

\* importFromJSON from the await of showImportDialog on, and the onchange
\* handler of the file input after it: choice is "cancel" for a null
\* importChoice, else the mode chosen.
importFromJSON(w, prompts, choice, saveOk, backupOk, prefsOk) ==
    IF choice = "cancel"
    THEN [w |-> w, ok |-> FALSE, created |-> 0, toast |-> "", bk |-> NoBackupCall]
    ELSE LET r == CHOOSE x \in {batchCreatePrompts(w, items, choice, saveOk, 0) :
                                    items \in {prompts}} : TRUE
         IN  IF ~r.ok
             THEN [w |-> r.w, ok |-> FALSE, created |-> 0, toast |-> r.err,
                   bk |-> NoBackupCall]
             ELSE IF r.results.created > 0
             THEN LET b == autoBackupMaybe(r.w, backupOk, prefsOk)
                  IN  [w |-> b.w, ok |-> TRUE, created |-> r.results.created,
                       toast |-> "Imported", bk |-> b.bk]
             ELSE [w |-> r.w, ok |-> FALSE, created |-> 0,
                   toast |-> IF r.results.errors # <<>>
                             THEN "Import failed with errors" ELSE "",
                   bk |-> NoBackupCall]

(***************************************************************************)
(* The handlers of app.js.                                                 *)
(***************************************************************************)
\* The data object of a prompt.
Data(title, content, tags) == [title |-> title, content |-> content, tags |-> tags]

\* parseTagsString, on the pieces str.split(',') gives.
parseTagsString(parts) ==
    LET trimmed == [i \in 1..Len(parts) |-> Trim(parts[i])]
        kept == SelectSeq(trimmed, LAMBDA x : x # <<>>)
    IN  sanitizeTags(Arr([i \in 1..Len(kept) |-> Str(kept[i])]))

FormData(form) ==
    LET tags == parseTagsString(form.tags)
    IN  Data(Str(Trim(form.title)),
             Str(Trim(form.content)),
             Arr([i \in 1..Len(tags) |-> Str(tags[i])]))

\* handleFormSubmit: editId is currentState.currentEditId, 0 for null.
\* The first validation error is shown and nothing else happens; otherwise
\* the prompt is updated or created and, unless that threw,
\* autoBackupMaybe runs.
handleFormSubmit(w, editId, form, saveOk, d, backupOk, prefsOk) ==
    LET data == FormData(form)
        errors == validatePromptData(data)
    IN  IF errors # <<>>
        THEN [w |-> w, mutated |-> FALSE, toast |-> errors[1], bk |-> NoBackupCall]
        ELSE LET r == IF editId # 0 THEN updatePrompt(w, editId, data, saveOk, d)
                      ELSE createPrompt(w, data, saveOk, d)
             IN  IF ~r.ok
                 THEN [w |-> r.w, mutated |-> FALSE, toast |-> r.err, bk |-> NoBackupCall]
                 ELSE LET b == autoBackupMaybe(r.w, backupOk, prefsOk)
                      IN  [w |-> b.w, mutated |-> TRUE,
                           toast |-> IF editId # 0 THEN "Prompt updated!"
                                     ELSE "Prompt created!",
                           bk |-> b.bk]

(***************************************************************************)
(* The page.  listeners counts the click listeners initializeUI has put on *)
(* document; selectedTags is currentState.selectedTags; dialog is what the *)
(* modal container shows, with the collection as it was when the dialog    *)
(* opened.  initializeApp has run initializeUI once.                       *)
(***************************************************************************)
NoDialog == [kind |-> "none"]

InitialUi == [listeners |-> 1, selectedTags |-> <<>>, dialog |-> NoDialog]

\* The operations that return the page they leave in ret.ui.
UiOps == {"reset", "clickTag", "clickDelete", "confirm", "openImport", "import"}

\* deleteConfirmed that takes the delete for done.
deleteConfirmed_Unchecked(w, promptId, saveOk, backupOk, prefsOk) ==
    LET r == deletePrompt(w, promptId, saveOk)
        b == autoBackupMaybe(r.w, backupOk, prefsOk)
    IN  [w |-> b.w, mutated |-> TRUE, toast |-> "Prompt deleted", bk |-> b.bk]

\* handleDelete from if (confirmed) on, the dialog having been confirmed.
deleteConfirmed(w, promptId, saveOk, backupOk, prefsOk) ==
    LET r == deletePrompt(w, promptId, saveOk)
    IN  IF ~r.ok
        THEN [w |-> r.w, mutated |-> FALSE, toast |-> "Failed to delete prompt",
              bk |-> NoBackupCall]
        ELSE LET b == autoBackupMaybe(r.w, backupOk, prefsOk)
             IN  [w |-> b.w, mutated |-> TRUE, toast |-> "Prompt deleted",
                  bk |-> b.bk]

\* handleDelete: nothing when the prompt is gone or the dialog is declined.
handleDelete(w, promptId, confirmed, saveOk, backupOk, prefsOk) ==
    IF ~getPromptById(w, promptId).found \/ ~confirmed
    THEN [w |-> w, mutated |-> FALSE, toast |-> "", bk |-> NoBackupCall]
    ELSE deleteConfirmed(w, promptId, saveOk, backupOk, prefsOk)

\* handleTagToggle: the tag is spliced out at its first index, or pushed.
handleTagToggle(selectedTags, tag) ==
    LET at == {i \in 1..Len(selectedTags) : selectedTags[i] = tag}
    IN  IF at = {} THEN Append(selectedTags, tag)
        ELSE LET index == CHOOSE i \in at : \A j \in at : i <= j
             IN  SubSeq(selectedTags, 1, index - 1)
                 \o SubSeq(selectedTags, index + 1, Len(selectedTags))

\* A click on a tag filter button: each of the n click listeners of
\* document calls handleTagToggle with the button's tag.
RECURSIVE TagClick(_, _, _)
TagClick(selectedTags, tag, n) ==
    IF n = 0 THEN selectedTags
    ELSE TagClick(handleTagToggle(selectedTags, tag), tag, n - 1)

\* A click on a card's delete button: each click listener of document calls
\* handleDelete, which runs to its await; every showConfirmDialog writes the
\* modal container anew.  started counts the dialogs shown.
DeleteClick(w, u, promptId) ==
    IF ~getPromptById(w, promptId).found THEN [ui |-> u, started |-> 0]
    ELSE [ui |-> [u EXCEPT !.dialog = [kind |-> "confirm", promptId |-> promptId,
                                       seen |-> getAllPrompts(w)]],
          started |-> u.listeners]

\* handleResetApp: the filter is emptied, renderApp writes the page anew,
\* the modal container with it, and initializeUI runs once more.
handleResetApp(u) ==
    [u EXCEPT !.selectedTags = <<>>, !.dialog = NoDialog, !.listeners = @ + 1]

\* The Save button of the settings dialog: parseInt(value) || 10.
saveSettings(w, enabled, threshold, prefsOk) ==
    setPreferences(w,
        [getPreferences(w) EXCEPT
            !.autoBackupEnabled = enabled,
            !.autoBackupThreshold = IF threshold = 0 THEN DefaultThreshold
                                    ELSE threshold],
        prefsOk)

(***************************************************************************)
(* Inputs.                                                                 *)
(***************************************************************************)
LongTitle == [i \in 1..(MaxTitleLength + 1) |-> "a"]

PlainData == Data(Str(<<"a">>), Str(<<"b">>), Arr(<<Str(<<"a">>)>>))
SpacedData ==
    Data(Str(<<" ", "a">>), Str(<<"b", " ">>),
         Arr(<<Str(<<"A">>), Str(<<"a", " ">>), Str(<<"b">>)>>))
BareData == Data(Str(<<"b">>), Undef, Undef)
BlankData == Data(Str(<<" ">>), Str(<<>>), Undef)
MissingData == Data(Undef, Str(<<"b">>), Undef)
LongData == Data(Str(LongTitle), Str(<<>>), Undef)

CreateInputs == {PlainData, SpacedData, BareData, BlankData, MissingData, LongData}

UpdateInputs ==
    {Data(Str(<<"b", " ">>), Undef, Undef),
     Data(Undef, Str(<<" ", "a">>), Undef),
     Data(Undef, Undef, Arr(<<Str(<<"B">>)>>)),
     Data(Str(<<" ">>), Str(<<"a">>), Undef),
     Data(Undef, Undef, Undef)}

Item(title, content, createdAt) ==
    [title |-> title, content |-> content, tags |-> Undef, createdAt |-> createdAt]

PlainItem == Item(Str(<<"a">>), Str(<<"b">>), Undef)
SpacedItem == Item(Str(<<" ", "a">>), Str(<<"b">>), Undef)
BareItem == Item(Str(<<"a">>), Undef, Undef)
BadItem == Item(Undef, Str(<<"b">>), Undef)
\* An item whose content is a number.
NumItem == Item(Str(<<"a">>), Num(1), Undef)
\* An item that carries a createdAt later than any time the clock reaches.
FutureItem == Item(Str(<<"b">>), Str(<<"b">>), Num(MaxClock + 1))

BatchInputs ==
    {<<>>, <<PlainItem>>, <<SpacedItem>>, <<BareItem>>, <<BadItem>>,
     <<PlainItem, PlainItem>>, <<SpacedItem, SpacedItem>>, <<BadItem, PlainItem>>,
     <<PlainItem, BareItem>>, <<FutureItem>>, <<NumItem, PlainItem>>}

Modes == {"merge", "replace"}

\* What the environment does during an operation: whether localStorage
\* accepts the write of setState, and the milliseconds that pass before the
\* operation's last read of the clock.
Envs == {[saveOk |-> TRUE, d |-> 0], [saveOk |-> TRUE, d |-> 1],
         [saveOk |-> FALSE, d |-> 0]}

\* The ids an operation is called with: those of the records in the
\* collection, and one that no record has.
IdInputs == {getAllPrompts(World)[i].id : i \in 1..Len(getAllPrompts(World))}
            \cup {nextId}

\* What the prompt form holds on submit: the title and content fields and
\* the pieces of the tags field between commas.
Form(title, content, tags) == [title |-> title, content |-> content, tags |-> tags]

PlainForm == Form(<<"a">>, <<"b">>, <<<<"A", " ">>, <<"a">>>>)
BlankForm == Form(<<" ">>, <<"b">>, <<<<>>>>)

FormInputs == {PlainForm, BlankForm}

\* What the environment does during a handler: as Envs, and whether
\* localStorage accepts the writes of the backup list and of the
\* preferences.  One thing at a time goes wrong; a handler's reads of the
\* clock fall in one millisecond.
HandlerEnvs ==
    {[saveOk |-> TRUE, d |-> 0, backupOk |-> TRUE, prefsOk |-> TRUE],
     [saveOk |-> FALSE, d |-> 0, backupOk |-> TRUE, prefsOk |-> TRUE],
     [saveOk |-> TRUE, d |-> 0, backupOk |-> FALSE, prefsOk |-> TRUE],
     [saveOk |-> TRUE, d |-> 0, backupOk |-> TRUE, prefsOk |-> FALSE]}

\* currentEditId: null (0) for a new prompt, else the id of a listed one.
EditIds == {0} \cup {getAllPrompts(World)[i].id : i \in 1..Len(getAllPrompts(World))}

\* The settings dialog: the checkbox, and the number typed as threshold
\* (0 for an empty or zero field).
ThresholdInputs == {0, 1, 2}

(***************************************************************************)
(* Initial state: a page load.  Nothing has run yet, so defaultState is    *)
(* as written in storage.js; the item under STORAGE_KEY is absent, or      *)
(* holds text that does not parse.                                         *)
(***************************************************************************)
NoMerge == [has |-> FALSE, items |-> <<>>]

InitStores ==
    /\ ui = InitialUi
    /\ stored \in {NoStored("none"), NoStored("corrupt")}
    /\ defaultPrompts = <<>>
    /\ prefs = defaultPreferences
    /\ backups = <<>>
    /\ clock = 1
    /\ nextId = 1
    /\ ops = 0
    /\ last = [op |-> "init", arg |-> <<>>, ok |-> TRUE, ret |-> <<>>,
               pre |-> <<>>, preCounter |-> 0, prevMerge |-> NoMerge,
               preStored |-> stored, preBackups |-> <<>>,
               prePrefs |-> defaultPreferences, mutated |-> FALSE,
               bk |-> NoBackupCall, mutCount |-> 0, mutSince |-> 0,
               saveCalls |-> 0, savedIds |-> <<>>]

Init ==
    /\ InitStores
    /\ parsed = Undef

\* The world w becomes the state; last records the operation.  mutated
\* tells whether the operation changed the collection as a successful
\* create, update, delete or import of at least one record; bk what
\* happened to the ring buffer.  last counts the successful mutations since
\* the last automatic backup (mutCount before this operation's backup,
\* mutSince after it), the calls of saveLocalBackup, and keeps the ids of
\* the backups stored, newest first.
Commit(w, op, arg, ok, ret, prevMerge, mutated, bk) ==
    /\ parsed' = parsed
    /\ ui' = IF op \in UiOps THEN ret.ui ELSE ui
    /\ stored' = w.stored
    /\ defaultPrompts' = w.defaultPrompts
    /\ prefs' = w.prefs
    /\ backups' = w.backups
    /\ clock' = w.clock
    /\ nextId' = w.nextId
    /\ ops' = ops + 1
    /\ last' = [op |-> op, arg |-> arg, ok |-> ok, ret |-> ret,
                pre |-> getAllPrompts(World), preCounter |-> prefs.changeCounter,
                prevMerge |-> prevMerge,
                preStored |-> stored, preBackups |-> backups,
                prePrefs |-> prefs, mutated |-> mutated, bk |-> bk,
                mutCount |-> last.mutSince + (IF mutated THEN 1 ELSE 0),
                mutSince |-> IF bk.auto THEN 0
                             ELSE last.mutSince + (IF mutated THEN 1 ELSE 0),
                saveCalls |-> last.saveCalls + (IF bk.called THEN 1 ELSE 0),
                savedIds |-> IF bk.saved THEN <<Head(w.backups).id>> \o last.savedIds
                             ELSE last.savedIds]

(***************************************************************************)
(* Actions: the operations of the record engine.                           *)
(***************************************************************************)
CreatePrompt ==
    /\ ops < MaxOps
    /\ \E data \in CreateInputs, e \in Envs :
        LET r == createPrompt(World, data, e.saveOk, e.d)
        IN  Commit(r.w, "create", data, r.ok, [err |-> r.err, prompt |-> r.prompt],
                   NoMerge, r.ok, NoBackupCall)

UpdatePrompt ==
    /\ ops < MaxOps
    /\ \E id \in IdInputs, data \in UpdateInputs, e \in Envs :
        LET r == updatePrompt(World, id, data, e.saveOk, e.d)
        IN  Commit(r.w, "update", [id |-> id, data |-> data], r.ok,
                   [err |-> r.err, prompt |-> r.prompt], NoMerge, r.ok, NoBackupCall)

DeletePrompt ==
    /\ ops < MaxOps
    /\ \E id \in IdInputs, saveOk \in BOOLEAN :
        LET r == deletePrompt(World, id, saveOk)
        IN  Commit(r.w, "delete", [id |-> id], r.ok, [err |-> r.err], NoMerge,
                   r.ok, NoBackupCall)

\* An import is taken within one reading of the clock; time passes in the
\* operations around it.
BatchCreatePrompts ==
    /\ ops < MaxOps
    /\ \E items \in BatchInputs, mode \in Modes, e \in {x \in Envs : x.d = 0} :
        LET r == batchCreatePrompts(World, items, mode, e.saveOk, e.d)
        IN  Commit(r.w, "batch", [items |-> items, mode |-> mode], r.ok,
                   [err |-> r.err, results |-> r.results, writes |-> r.writes],
                   IF last.op = "batch" /\ last.ok /\ last.arg.mode = "merge"
                   THEN [has |-> TRUE, items |-> last.arg.items]
                   ELSE NoMerge,
                   r.ok /\ r.results.created >= 1, NoBackupCall)

ClearStorage ==
    /\ ops < MaxOps
    /\ Commit(clearStorage(World), "clear", <<>>, TRUE, <<>>, NoMerge, FALSE,
              NoBackupCall)

Next ==
    \/ CreatePrompt
    \/ UpdatePrompt
    \/ DeletePrompt
    \/ BatchCreatePrompts
    \/ ClearStorage

Spec == Init /\ [][Next]_vars

(***************************************************************************)
(* Actions: the handlers of app.js and the exported operations of the      *)
(* preferences and the backup ring buffer.                                 *)
(***************************************************************************)
HandleFormSubmit ==
    /\ ops < MaxBackupOps
    /\ \E editId \in EditIds, form \in FormInputs, e \in HandlerEnvs :
        LET r == handleFormSubmit(World, editId, form, e.saveOk, e.d, e.backupOk,
                                  e.prefsOk)
        IN  Commit(r.w, "submit",
                   [editId |-> editId, form |-> form, backupOk |-> e.backupOk,
                    prefsOk |-> e.prefsOk],
                   r.mutated, [toast |-> r.toast], NoMerge, r.mutated, r.bk)

HandleDelete ==
    /\ ops < MaxBackupOps
    /\ \E promptId \in EditIds \ {0}, confirmed \in BOOLEAN, e \in HandlerEnvs :
        LET r == handleDelete(World, promptId, confirmed, e.saveOk, e.backupOk,
                              e.prefsOk)
        IN  Commit(r.w, "confirmDelete",
                   [promptId |-> promptId, confirmed |-> confirmed,
                    backupOk |-> e.backupOk, prefsOk |-> e.prefsOk],
                   r.mutated, [toast |-> r.toast], NoMerge, r.mutated, r.bk)

SaveSettings ==
    /\ ops < MaxBackupOps
    /\ \E enabled \in BOOLEAN, threshold \in ThresholdInputs, prefsOk \in BOOLEAN :
        Commit(saveSettings(World, enabled, threshold, prefsOk), "settings",
               [enabled |-> enabled, threshold |-> threshold], prefsOk, <<>>,
               NoMerge, FALSE, NoBackupCall)

IncrementChangeCounter ==
    /\ ops < MaxBackupOps
    /\ \E prefsOk \in BOOLEAN :
        Commit(incrementChangeCounter(World, prefsOk), "increment", <<>>, prefsOk,
               <<>>, NoMerge, FALSE, NoBackupCall)

AutoBackupMaybe ==
    /\ ops < MaxBackupOps
    /\ \E e \in HandlerEnvs :
        LET r == autoBackupMaybe(World, e.backupOk, e.prefsOk)
        IN  Commit(r.w, "maybeBackup", [backupOk |-> e.backupOk, prefsOk |-> e.prefsOk],
                   r.result, <<>>, NoMerge, FALSE, r.bk)

\* saveLocalBackup(getState()), d milliseconds after the previous operation.
SaveLocalBackup ==
    /\ ops < MaxBackupOps
    /\ \E backupOk \in BOOLEAN, d \in {0, 1} :
        LET w0 == [World EXCEPT !.clock = Later(@, d)]
            state == getState(w0)
            w1 == [w0 EXCEPT !.nextId = state.nextId]
            r == saveLocalBackup(w1, Snapshot(w1), backupOk)
        IN  Commit(r.w, "saveBackup", [data |-> Snapshot(w1)], r.saved,
                   [backup |-> r.backup], NoMerge, FALSE,
                   [called |-> TRUE, saved |-> r.saved, auto |-> FALSE])

NextBackup ==
    \/ HandleFormSubmit
    \/ HandleDelete
    \/ SaveSettings
    \/ IncrementChangeCounter
    \/ AutoBackupMaybe
    \/ SaveLocalBackup

SpecBackup == Init /\ [][NextBackup]_vars

(***************************************************************************)
(* The export menu and the backup list of the settings dialog.  The list   *)
(* under BACKUPS_KEY is empty at page load, or holds one backup that       *)
(* another writer left there: one without data, one whose data has no      *)
(* prompts, one whose prompts is a string.                                  *)
(***************************************************************************)
RingInputs ==
    {<<>>}
    \cup {<<[id |-> 0, timestamp |-> 0, data |-> data]>> :
            data \in {Undef, StateObj(Num(CURRENT_VERSION), Undef, Undef),
                      StateObj(Num(CURRENT_VERSION), Str(<<"x">>), Undef)}}

\* The backup ids a button of the list can carry, and one of no backup.
BackupIdInputs == {backups[i].id : i \in 1..Len(backups)} \cup {nextId}

InitIo ==
    /\ ui = InitialUi
    /\ stored = NoStored("none")
    /\ defaultPrompts = <<>>
    /\ prefs = defaultPreferences
    /\ backups \in RingInputs
    /\ clock = 1
    /\ nextId = 1
    /\ ops = 0
    /\ parsed = Undef
    /\ last = [op |-> "init", arg |-> <<>>, ok |-> TRUE, ret |-> <<>>,
               pre |-> <<>>, preCounter |-> 0, prevMerge |-> NoMerge,
               preStored |-> stored, preBackups |-> backups,
               prePrefs |-> defaultPreferences, mutated |-> FALSE,
               bk |-> NoBackupCall, mutCount |-> 0, mutSince |-> 0,
               saveCalls |-> 0, savedIds |-> <<>>]

ExportToJSON ==
    /\ ops < MaxIoOps
    /\ LET r == exportToJSON(World)
       IN  Commit(r.w, "exportJson", <<>>, r.ok, [file |-> r.file], NoMerge, FALSE,
                  NoBackupCall)

ExportToMarkdown ==
    /\ ops < MaxIoOps
    /\ LET r == exportToMarkdown(World)
       IN  Commit(r.w, "exportMarkdown", <<>>, r.ok, [file |-> r.file], NoMerge,
                  FALSE, NoBackupCall)

DownloadLocalBackup ==
    /\ ops < MaxIoOps
    /\ \E backupId \in BackupIdInputs :
        LET r == downloadLocalBackup(World, backupId)
        IN  Commit(r.w, "downloadBackup", [backupId |-> backupId], r.ok,
                   [file |-> r.file], NoMerge, FALSE, NoBackupCall)

RestoreLocalBackup ==
    /\ ops < MaxBackupOps
    /\ \E backupId \in BackupIdInputs, mode \in Modes, saveOk \in BOOLEAN :
        \E r \in {restoreLocalBackup(World, backupId, mode, saveOk, 0)} :
            Commit(r.w, "restore",
                   [backupId |-> backupId, mode |-> mode,
                    index |-> BackupIndex(backups, backupId)],
                   r.ok, [toast |-> r.toast, created |-> r.created], NoMerge,
                   r.created > 0, NoBackupCall)

\* The menu and the list are used MaxIoOps times at most.
NextIo ==
    /\ ops < MaxIoOps
    /\ \/ CreatePrompt
       \/ IncrementChangeCounter
       \/ SaveLocalBackup
       \/ ExportToJSON
       \/ ExportToMarkdown
       \/ DownloadLocalBackup
       \/ RestoreLocalBackup

SpecIo == InitIo /\ [][NextIo]_vars

\* A collection is built by the engine, a backup of it is taken and a
\* backup is restored.
NextRestore ==
    \/ CreatePrompt
    \/ UpdatePrompt
    \/ BatchCreatePrompts
    \/ SaveLocalBackup
    \/ RestoreLocalBackup

SpecRestore == Init /\ [][NextRestore]_vars

(***************************************************************************)
(* The page's handlers.  A handler that awaits a dialog is two actions:    *)
(* the one that opens the dialog and the one that runs when a button of    *)
(* the dialog resolves the promise; whatever else the user starts runs in  *)
(* between.  A dialog whose markup another dialog or renderApp has written *)
(* over is never resolved.                                                 *)
(***************************************************************************)
\* The collection as loadState gives it.
Loaded == getAllPrompts(World)

\* The prompts of a file as parseImportData hands them to the import
\* dialog: title trimmed, content, tags and createdAt filled in.
ImportInputs ==
    {<<[title |-> Str(<<"c">>), content |-> Str(<<"d">>), tags |-> Arr(<<>>),
        createdAt |-> Num(1)]>>}

\* The tags the filter bar has a button for.
TagButtons ==
    UNION {{Loaded[i].tags[k] : k \in 1..Len(Loaded[i].tags)} : i \in 1..Len(Loaded)}

HandleResetApp ==
    Commit(World, "reset", <<>>, TRUE, [ui |-> handleResetApp(ui)], NoMerge, FALSE,
           NoBackupCall)

ClickTagFilter ==
    \E tag \in TagButtons :
        Commit(World, "clickTag", [tag |-> tag, selectedTags |-> ui.selectedTags],
               TRUE,
               [ui |-> [ui EXCEPT !.selectedTags = TagClick(@, tag, ui.listeners)]],
               NoMerge, FALSE, NoBackupCall)

ClickDelete ==
    \E promptId \in EditIds \ {0} :
        \E r \in {DeleteClick(World, ui, promptId)} :
            Commit(World, "clickDelete", [promptId |-> promptId], TRUE,
                   [ui |-> r.ui, started |-> r.started], NoMerge, FALSE, NoBackupCall)

\* A button of the confirmation dialog resolves the promise and handleDelete
\* goes on.
ResolveConfirm ==
    /\ ui.dialog.kind = "confirm"
    /\ \E confirmed \in BOOLEAN, e \in HandlerEnvs :
        \E r \in {IF confirmed
                  THEN deleteConfirmed(World, ui.dialog.promptId, e.saveOk,
                                       e.backupOk, e.prefsOk)
                  ELSE [w |-> World, mutated |-> FALSE, toast |-> "",
                        bk |-> NoBackupCall]} :
            Commit(r.w, "confirm",
                   [promptId |-> ui.dialog.promptId, confirmed |-> confirmed,
                    seen |-> ui.dialog.seen],
                   r.mutated, [ui |-> [ui EXCEPT !.dialog = NoDialog], toast |-> r.toast],
                   NoMerge, r.mutated, r.bk)

\* A file is chosen: importFromJSON runs to the await of showImportDialog.
OpenImport ==
    \E items \in ImportInputs :
        Commit(World, "openImport", [items |-> items], TRUE,
               [ui |-> [ui EXCEPT !.dialog = [kind |-> "import", prompts |-> items,
                                              seen |-> Loaded]]],
               NoMerge, FALSE, NoBackupCall)

\* A button of the import dialog resolves the promise and importFromJSON
\* goes on.
ResolveImport ==
    /\ ui.dialog.kind = "import"
    /\ \E choice \in {"cancel"} \cup Modes, e \in HandlerEnvs :
        \E r \in {importFromJSON(World, ui.dialog.prompts, choice, e.saveOk,
                                 e.backupOk, e.prefsOk)} :
            Commit(r.w, "import",
                   [mode |-> choice, prompts |-> ui.dialog.prompts,
                    seen |-> ui.dialog.seen],
                   r.ok,
                   [ui |-> [ui EXCEPT !.dialog = NoDialog], toast |-> r.toast,
                    created |-> r.created],
                   NoMerge, r.ok, r.bk)

NextUi ==
    /\ ops < MaxUiOps
    /\ \/ HandleFormSubmit \/ HandleResetApp \/ ClickTagFilter \/ ClickDelete
       \/ ResolveConfirm \/ OpenImport \/ ResolveImport

SpecUi == Init /\ [][NextUi]_vars

(***************************************************************************)
(* migrate applied to a value JSON.parse returned, then to its own output. *)
(***************************************************************************)
\* Prompt entries with each property absent, falsy or present.
PromptEntries ==
    {PromptObj(id, title, content, tags, createdAt, updatedAt) :
        id \in {Undef, Uuid(7)},
        title \in {Undef, Str(<<>>), Str(<<"a">>)},
        content \in {Undef, Str(<<"b">>)},
        tags \in {Undef, Str(<<"a">>), Arr(<<Str(<<"A">>)>>)},
        createdAt \in {Undef, Num(0), Num(2)},
        updatedAt \in {Undef, Num(1)}}

\* Entries of a prompts array: prompt objects, and values that are none.
EntryInputs == PromptEntries \cup {Null, Num(5), Str(<<"a">>), Arr(<<>>)}

BareEntry == PromptObj(Undef, Undef, Undef, Undef, Undef, Undef)

PromptsInputs ==
    {Undef, Null, Str(<<"a">>), Arr(<<>>), Arr(<<BareEntry, BareEntry>>),
     Arr(<<Num(5), BareEntry>>)}
    \cup {Arr(<<e>>) : e \in EntryInputs}

\* Stored values: no objects, arrays, and objects with or without a
\* version, a prompts property and other properties.
MigrateInputs ==
    {Null, Num(0), Num(5), Str(<<"a">>), Arr(<<>>), Arr(<<Num(5)>>)}
    \cup {StateObj(version, prompts, rest) :
            version \in {Undef, Num(1)},
            prompts \in PromptsInputs,
            rest \in {Undef, Str(<<"a">>)}}

InitMigrate ==
    /\ InitStores
    /\ parsed \in MigrateInputs

\* migrate(parsed), d milliseconds after the previous call.
Migrate ==
    /\ ops < MaxMigrations
    /\ \E d \in {0, 1} :
        LET w == [World EXCEPT !.clock = Later(@, d)]
            r == migrate(w, parsed)
        IN  /\ parsed' = r.value
            /\ clock' = w.clock
            /\ nextId' = r.nextId
            /\ ops' = ops + 1
            /\ last' = [last EXCEPT !.op = "migrate", !.arg = parsed, !.ok = TRUE,
                                    !.ret = r.value]
            /\ UNCHANGED <<stored, defaultPrompts, prefs, backups, ui>>

NextMigrate == Migrate

SpecMigrate == InitMigrate /\ [][NextMigrate]_vars

(***************************************************************************)
(* searchPrompts applied to lists of records and queries.                  *)
(***************************************************************************)
SearchRecord(id, title, content, tags) ==
    [id |-> id, title |-> title, content |-> content, tags |-> tags,
     createdAt |-> 1, updatedAt |-> 1]

SearchBodies ==
    {[title |-> title, content |-> content, tags |-> tags] :
        title \in {<<"a", "b">>, <<"B">>, <<"a", ".", "b">>, <<"a", "a", "b">>},
        content \in {<<>>, <<"A", "b">>},
        tags \in {<<>>, <<<<"b">>, <<"a", "b">>>>}}

SearchLists ==
    {<<>>}
    \cup {<<SearchRecord(1, x.title, x.content, x.tags)>> : x \in SearchBodies}
    \cup {<<SearchRecord(1, x.title, x.content, x.tags),
            SearchRecord(2, y.title, y.content, y.tags)>> :
            x \in SearchBodies, y \in SearchBodies}

QueryInputs ==
    {Undef, Str(<<>>), Str(<<" ">>), Str(<<"a", "b">>), Str(<<" ", "A", "B", " ">>),
     Str(<<"a", ".", "b">>), Str(<<"b">>), Str(<<"x">>)}

\* searchPrompts(prompts, query): nothing but the result is produced.  The
\* function keeps nothing between calls (the RegExp is built anew in each),
\* so a behaviour makes one call.
SearchPrompts ==
    \E prompts \in SearchLists, query \in QueryInputs :
        /\ last.op = "init"
        /\ last' = [last EXCEPT !.op = "search",
                                !.arg = [prompts |-> prompts, query |-> query],
                                !.ok = TRUE,
                                !.ret = searchPrompts(prompts, query)]
        /\ UNCHANGED <<stored, defaultPrompts, prefs, backups, clock, nextId, ops,
                       parsed, ui>>

NextSearch == SearchPrompts

SpecSearch == Init /\ [][NextSearch]_vars

(***************************************************************************)
(* applyPlaceholders applied to texts and values.                          *)
(***************************************************************************)
TemplateInputs ==
    {Undef, Str(<<>>),
     Str(<<"{", "{", "x", "}", "}">>),
     Str(<<"{", "{", "x", "|", "f", "}", "}">>),
     Str(<<"{", "{", "x", "|", "}", "}">>),
     Str(<<"{", "{", " ", "x", " ", "}", "}">>),
     Str(<<"a", "{", "{", "x", "}", "}", "b", "{", "{", "y", "|", "f", "}", "}">>),
     Str(<<"{", "{", "x", "}", "}", "{", "{", "x", "}", "}">>),
     Str(<<"{", "{", "y", "}", "}", "{", "{", "x", "}", "}", "{", "{", "y", "}", "}">>),
     Str(<<"{", "{", "t", "o", "d", "a", "y", "}", "}">>),
     Str(<<"{", "{", "n", "o", "w", "}", "}", " ", "{", "{", "t", "o", "d", "a", "y", "|", "f", "}", "}">>),
     Str(<<"{", "{", " ", "t", "o", "d", "a", "y", " ", "}", "}">>),
     Str(<<"{", "{", "x", "}">>),
     Str(<<"{", "{", "x", "|", "f", "}", "c", "}", "}">>),
     Str(<<"{", "{", "{", "x", "}", "}", "}">>),
     Str(<<"{", "{", "}", "}">>),
     Str(<<"{", "{", " ", "}", "}">>),
     Str(<<"{", "{", "x", "|", "f", "|", "g", "}", "}">>),
     Str(<<"a", "b">>),
     Str(<<"{", "{", "t", "o", "d", "a", "y", "}", "}", "{", "{", "x", "}", "}">>),
     Str(<<"{", "{", "n", "o", "w", "|", "f", "}", "}">>),
     Str(<<"{", "{", "x", "}", "}", "|", "{", "{", "n", "o", "w", "}", "}">>),
     Str(<<"{", "{", "x", "|", "f", "}", "}", "{", "{", "x", "}", "}">>)}

NameX == <<"x">>
NameY == <<"y">>

ValuesInputs ==
    {[name \in {} |-> <<>>],
     [name \in {NameX} |-> <<"v">>],
     [name \in {NameX} |-> <<>>],
     [name \in {NameX, NameY} |-> IF name = NameX THEN <<"v">> ELSE <<"w">>],
     [name \in {TodayName} |-> <<"v">>],
     [name \in {TodayName, NowName} |-> IF name = TodayName THEN <<>> ELSE <<"w">>],
     [name \in {NameX, TodayName, NowName} |-> <<"v">>]}

\* applyPlaceholders(text, values): nothing but the result is produced.
ApplyPlaceholders ==
    \E text \in TemplateInputs, values \in ValuesInputs :
        /\ last' = [last EXCEPT !.op = "apply",
                                !.arg = [text |-> text, values |-> values],
                                !.ok = TRUE,
                                !.ret = applyPlaceholders(text, values)]
        /\ UNCHANGED <<stored, defaultPrompts, prefs, backups, clock, nextId, ops,
                       parsed, ui>>

NextTemplate == ApplyPlaceholders

SpecTemplate == Init /\ [][NextTemplate]_vars

(***************************************************************************)
(* validatePromptData applied to data objects.                             *)
(***************************************************************************)
LongContent == [i \in 1..(MaxContentLength + 1) |-> "a"]
LongTag == [i \in 1..(MaxTagLength + 1) |-> "a"]
ManyTags == [i \in 1..(MaxTags + 1) |-> Str(<<"a">>)]

ValidateTitles ==
    {Undef, Str(<<>>), Str(<<" ">>), Str(<<"a">>), Str(LongTitle), Num(5)}

ValidateContents == {Undef, Str(<<"b">>), Str(LongContent)}

ValidateTags ==
    {Undef, Str(<<>>), Str(<<"a">>), Arr(<<>>), Arr(<<Str(<<"a">>)>>),
     Arr(<<Num(5)>>), Arr(<<Str(LongTag)>>), Arr(<<Num(5), Str(LongTag)>>),
     Arr(ManyTags), Arr([ManyTags EXCEPT ![1] = Str(LongTag)]),
     Arr([ManyTags EXCEPT ![MaxTags + 1] = Num(5)])}

\* validatePromptData(data): nothing but the result is produced.
ValidatePromptData ==
    \E title \in ValidateTitles, content \in ValidateContents, tags \in ValidateTags :
        /\ last' = [last EXCEPT !.op = "validate",
                                !.arg = Data(title, content, tags),
                                !.ok = TRUE,
                                !.ret = validatePromptData(Data(title, content, tags))]
        /\ UNCHANGED <<stored, defaultPrompts, prefs, backups, clock, nextId, ops,
                       parsed, ui>>

NextValidate == ValidatePromptData

SpecValidate == Init /\ [][NextValidate]_vars

(***************************************************************************)
(* Properties of the store and the record engine.                          *)
(***************************************************************************)
\* What a record holds besides its id and its timestamps.
Body(p) == [title |-> p.title, content |-> p.content, tags |-> p.tags]

Bodies(ps) == [i \in 1..Len(ps) |-> Body(ps[i])]

Ids(ps) == {ps[i].id : i \in 1..Len(ps)}

\* The text of an optional string as supplied ('' when absent) and the
\* strings of a supplied tag list.
Supplied(v) == IF v.t = "str" THEN v.s ELSE <<>>

SuppliedTags(tags) ==
    IF tags.t = "arr" THEN [i \in 1..Len(tags.s) |-> Supplied(tags.s[i])] ELSE <<>>

\* An item the import has to reject: one the validator finds errors in, or
\* one whose content is present but is no string.
ItemInvalid(it) ==
    \/ validatePromptData(it) # <<>>
    \/ (Truthy(it.content) /\ it.content.t # "str")

\* The title, content and tags an import is meant to store for its valid
\* items, in the order of the items.
RECURSIVE ImportBodies(_)
ImportBodies(items) ==
    IF items = <<>> THEN <<>>
    ELSE LET it == Head(items)
         IN  (IF ~ItemInvalid(it)
              THEN <<[title |-> Trim(it.title.s),
                      content |-> Trim(Supplied(it.content)),
                      tags |-> sanitizeTags(it.tags)]>>
              ELSE <<>>) \o ImportBodies(Tail(items))

\* C1: load() returns a State whose prompts sequence is empty whenever
\* nothing is persisted under the main state key or the persisted value
\* fails to parse, after any sequence of earlier operations.
C1_LoadEmptyWhenNothingPersisted ==
    stored.kind \in {"none", "corrupt"} => getState(World).prompts = <<>>

\* The stored records that hold the title and content of an item.
RecordsFor(item) ==
    {i \in 1..Len(Loaded) :
        /\ Loaded[i].title = Trim(item.title.s)
        /\ Loaded[i].content = Trim(Supplied(item.content))}

\* C2: importing the same {title, content} pair twice in merge mode (two
\* successive batchCreatePrompts calls in mode merge, for any title and
\* content that pass validation) leaves exactly one stored record for it.
C2_MergeTwiceLeavesOne ==
    (/\ last.op = "batch" /\ last.ok /\ last.arg.mode = "merge"
     /\ last.prevMerge.has /\ last.prevMerge.items = last.arg.items
     /\ Len(last.arg.items) = 1
     /\ validatePromptData(last.arg.items[1]) = <<>>)
    => Cardinality(RecordsFor(last.arg.items[1])) = 1

ReplaceReturned == last.op = "batch" /\ last.ok /\ last.arg.mode = "replace"

\* The collection is exactly the records of the last import: the title,
\* content and tags of its valid items, in order, under ids that no record
\* had before.
HoldsTheImport ==
    /\ Bodies(Loaded) = ImportBodies(last.arg.items)
    /\ Ids(Loaded) \cap Ids(last.pre) = {}

\* C3 as stated: after batchCreatePrompts(items, "replace") returns, the
\* persisted collection consists of exactly the records of that import, for
\* every items list including an empty list or a list with no valid item.
C3_ReplaceYieldsImport_Original == ReplaceReturned => HoldsTheImport

\* C3 as amended: after batchCreatePrompts(items, "replace") returns having
\* created at least one record, the persisted collection consists of exactly
\* the records of that import; when it created none (an empty list, or no
\* valid item) the persisted collection is what it was before the call.
C3_ReplaceYieldsImport ==
    ReplaceReturned =>
        IF last.ret.results.created >= 1 THEN HoldsTheImport ELSE Loaded = last.pre

\* A replace import that stored a record over a collection that was not
\* empty.
C3_Witness ==
    /\ ReplaceReturned
    /\ last.ret.results.created >= 1
    /\ last.pre # <<>>

\* C4: in a single merge-mode batch, an item whose title+content equals that
\* of an earlier accepted item of the same batch is skipped: two items with
\* identical title+content imported into an empty collection give
\* created = 1, skipped = 1 and one stored record.
C4_SameBatchDuplicateSkipped ==
    (/\ last.op = "batch" /\ last.ok /\ last.arg.mode = "merge"
     /\ last.pre = <<>>
     /\ Len(last.arg.items) = 2
     /\ last.arg.items[1] = last.arg.items[2]
     /\ validatePromptData(last.arg.items[1]) = <<>>)
    => /\ last.ret.results.created = 1
       /\ last.ret.results.skipped = 1
       /\ Len(Loaded) = 1

\* C5: every successful create, update and delete, and every batch import
\* that created at least one record, increases changeCounter by exactly
\* one; an operation that fails or creates nothing leaves it unchanged.
C5_MutationsCountOnce ==
    last.op \in {"create", "update", "delete", "batch"} =>
        prefs.changeCounter = last.preCounter + (IF last.mutated THEN 1 ELSE 0)

\* C6: with auto-backup enabled and threshold N, the handler that performs
\* the N-th successful mutation since the last automatic backup triggers a
\* backup when the store accepts the writes: the current State is the
\* newest ring-buffer entry and changeCounter is 0 afterwards.
C6_NthMutationTriggersBackup ==
    (/\ last.op \in {"submit", "confirmDelete"}
     /\ last.mutated
     /\ last.arg.backupOk
     /\ last.arg.prefsOk
     /\ last.prePrefs.autoBackupEnabled
     /\ last.mutCount = last.prePrefs.autoBackupThreshold)
    => (/\ last.bk.auto
        /\ backups # <<>>
        /\ Head(backups).data = Snapshot(World)
        /\ prefs.changeCounter = 0)

BackupIds == [i \in 1..Len(backups) |-> backups[i].id]

NewestFirst ==
    \A i \in 1..(Len(backups) - 1) : backups[i].timestamp >= backups[i + 1].timestamp

\* C7 as stated: after k calls of saveLocalBackup from an empty store the
\* list has min(3, k) entries, newest first.
C7_RingBuffer_Original ==
    /\ Len(backups) = Min(MaxBackups, last.saveCalls)
    /\ NewestFirst

\* C7: after k calls of saveLocalBackup that stored their backup, from an
\* empty store, the list has min(3, k) entries, they are the most recent
\* ones stored, newest first, and the call just made put its data first.
C7_RingBuffer ==
    /\ Len(backups) = Min(MaxBackups, Len(last.savedIds))
    /\ BackupIds = SubSeq(last.savedIds, 1, Len(backups))
    /\ NewestFirst
    /\ (last.op = "saveBackup" /\ last.ok) =>
           /\ Head(backups) = last.ret.backup
           /\ Head(backups).data = last.arg.data

\* C7: a fourth backup has been stored and the oldest one evicted.
C7_Witness ==
    /\ last.op = "saveBackup"
    /\ last.ok
    /\ Len(last.savedIds) = MaxBackups + 1
    /\ Len(backups) = MaxBackups

CreateReturned ==
    last.op = "create" /\ last.ok /\ validatePromptData(last.arg) = <<>>

IsNormalTagList(tags, supplied) ==
    LET norm == {ToLowerCase(Trim(supplied[i])) : i \in 1..Len(supplied)} \ {<<>>}
        first(x) == CHOOSE i \in 1..Len(supplied) :
                        /\ ToLowerCase(Trim(supplied[i])) = x
                        /\ \A j \in 1..(i - 1) : ToLowerCase(Trim(supplied[j])) # x
    IN  /\ {tags[i] : i \in 1..Len(tags)} = norm
        /\ Len(tags) = Cardinality(norm)
        /\ \A i, j \in 1..Len(tags) : i < j => first(tags[i]) < first(tags[j])

C9_CreateRejectsInvalidTitle ==
    (last.op = "create" /\ validatePromptData(last.arg) # <<>>)
    => /\ ~last.ok
       /\ last.ret.err = "Title is required"
          \/ last.ret.err = "Title must be less than 200 characters"
       /\ Loaded = last.pre

UpdatedIndex == IndexOfId(last.pre, last.arg.id)

\* C10: update(id, partial) on an existing id never changes that record's id
\* or createdAt, replaces only the fields supplied in partial (by their
\* trimmed or normalised value, when the update succeeds), keeps the record
\* at the same position, and leaves every other record unchanged.
C10_UpdateFrame ==
    (last.op = "update" /\ UpdatedIndex # 0) =>
        LET i == UpdatedIndex
            before == last.pre[i]
            data == last.arg.data
        IN  /\ Len(Loaded) = Len(last.pre)
            /\ \A j \in 1..Len(Loaded) : j # i => Loaded[j] = last.pre[j]
            /\ Loaded[i].id = before.id
            /\ Loaded[i].createdAt = before.createdAt
            /\ data.title.t = "undef" => Loaded[i].title = before.title
            /\ data.content.t = "undef" => Loaded[i].content = before.content
            /\ data.tags.t = "undef" => Loaded[i].tags = before.tags
            /\ last.ok =>
                /\ data.title.t # "undef" => Loaded[i].title = Trim(data.title.s)
                /\ data.content.t # "undef" =>
                       Loaded[i].content = Trim(Supplied(data.content))
                /\ data.tags.t # "undef" =>
                       IsNormalTagList(Loaded[i].tags, SuppliedTags(data.tags))

\* A successful update of the title alone, of the first of two records.
C10_Witness ==
    /\ last.op = "update" /\ last.ok
    /\ Len(last.pre) >= 2
    /\ UpdatedIndex = 1
    /\ last.arg.data.title.t # "undef"
    /\ last.arg.data.content.t = "undef"
    /\ Loaded[1].title # last.pre[1].title

\* C11: every successful update(id, partial) advances the record's
\* updatedAt: the stored value after the call is strictly greater than the
\* value before the call.
C11_UpdateAdvancesUpdatedAt ==
    (last.op = "update" /\ last.ok) =>
        Loaded[UpdatedIndex].updatedAt > last.pre[UpdatedIndex].updatedAt

\* C12: update and delete called with an id that no record has fail with the
\* not-found error and leave the persisted State, the collection that load
\* returns, the preferences and the backups unchanged.
C12_NotFoundChangesNothing ==
    (last.op \in {"update", "delete"} /\ last.arg.id \notin Ids(last.pre)) =>
        /\ ~last.ok
        /\ last.ret.err = "Prompt not found"
        /\ stored = last.preStored
        /\ Loaded = last.pre
        /\ prefs = last.prePrefs
        /\ backups = last.preBackups

\* C12: an update with an id that no record of a non-empty collection has.
C12_Witness ==
    /\ last.op = "update"
    /\ last.pre # <<>>
    /\ last.arg.id \notin Ids(last.pre)
    /\ last.arg.data.title.t # "undef"
    /\ ~last.ok

SaveErrors ==
    {"Failed to save prompt", "Failed to update prompt", "Failed to delete prompt",
     "Failed to save imported prompts"}

\* C13: when setState rejects the write during create, update, delete or
\* batch import, the operation fails and the next load returns the
\* collection exactly as it was before the operation.
C13_FailedSaveRollsBack ==
    (last.op \in {"create", "update", "delete", "batch"} /\ last.ret.err \in SaveErrors)
    => /\ ~last.ok
       /\ stored = last.preStored
       /\ Loaded = last.pre

\* C14: migration is idempotent: migrating what migrate returned, for any
\* stored value, returns it unchanged and draws no new id.
C14_MigrateIdempotent ==
    last.op = "migrate" =>
        /\ migrate(World, parsed).value = parsed
        /\ migrate(World, parsed).nextId = nextId

\* C14: migrate has repaired a prompt that had no id, and a millisecond has
\* passed since.
C14_Witness ==
    /\ last.op = "migrate"
    /\ ops = 1
    /\ PromptsOf(last.arg).t = "arr"
    /\ PromptsOf(last.arg).s # <<>>
    /\ PromptsOf(last.arg).s[1].t = "obj"
    /\ EntryField(PromptsOf(last.arg).s[1], 1) = Undef
    /\ EntryField(PromptsOf(parsed).s[1], 1) = Uuid(1)
    /\ EntryField(PromptsOf(parsed).s[1], 5) = Num(clock)

\* term occurs in text, ignoring case.
ContainsIgnoringCase(text, term) ==
    \E k \in 0..(Len(text) - Len(term)) :
        ToLowerCase(SubSeq(text, k + 1, k + Len(term))) = ToLowerCase(term)

RecordMatches(p, term) ==
    \/ ContainsIgnoringCase(p.title, term)
    \/ ContainsIgnoringCase(p.content, term)
    \/ \E i \in 1..Len(p.tags) : ContainsIgnoringCase(p.tags[i], term)

\* C15: search with a non-blank query returns exactly the records of the
\* input, in input order, that hold the trimmed query ignoring case in the
\* title, the content or a tag; a blank query returns the input unchanged.
C15_SearchReturnsMatches ==
    last.op = "search" =>
        LET prompts == last.arg.prompts
            term == Trim(Supplied(last.arg.query))
        IN  IF term = <<>> THEN last.ret = prompts
            ELSE last.ret = SelectSeq(prompts, LAMBDA p : RecordMatches(p, term))

\* The pieces of a text from index p on: its placeholder occurrences, found
\* from left to right, and the characters between them.
RECURSIVE Pieces(_, _)
Pieces(text, p) ==
    IF p > Len(text) THEN <<>>
    ELSE LET m == PlaceholderAt(text, p)
         IN  IF m.ok
             THEN <<[slot |-> TRUE, raw |-> SubSeq(text, p, m.end), name |-> Trim(m.name),
                     hasDefault |-> m.hasDefault, default |-> m.default]>>
                  \o Pieces(text, m.end + 1)
             ELSE <<[slot |-> FALSE, raw |-> <<text[p]>>, name |-> <<>>,
                     hasDefault |-> FALSE, default |-> <<>>]>>
                  \o Pieces(text, p + 1)

RECURSIVE Flatten(_)
Flatten(parts) == IF parts = <<>> THEN <<>> ELSE Head(parts) \o Flatten(Tail(parts))

HasValue(piece, supplied) ==
    piece.name \in DOMAIN supplied /\ supplied[piece.name] # <<>>

\* What a piece becomes: the non-empty value supplied for its name, else
\* its declared default, else its own text.
Substituted(piece, supplied) ==
    IF ~piece.slot THEN piece.raw
    ELSE IF HasValue(piece, supplied) THEN supplied[piece.name]
    ELSE IF piece.hasDefault THEN piece.default
    ELSE piece.raw

Untouched(piece, supplied) ==
    piece.slot /\ ~HasValue(piece, supplied) /\ ~piece.hasDefault

\* The result is the text with every occurrence substituted under the
\* values supplied, and missing lists the untouched names once each.
SubstitutesWith(supplied) ==
    LET pieces == Pieces(last.arg.text.s, 1)
        missing == last.ret.missing
    IN  /\ last.ret.text =
              Flatten([i \in 1..Len(pieces) |-> Substituted(pieces[i], supplied)])
        /\ {missing[i] : i \in 1..Len(missing)} =
              {pieces[i].name : i \in {j \in 1..Len(pieces) :
                                          Untouched(pieces[j], supplied)}}
        /\ \A i, j \in 1..Len(missing) : missing[i] = missing[j] => i = j

\* C16 as stated: every occurrence is replaced by the non-empty value
\* supplied in values for its name, else by its default, else left
\* untouched and reported missing once.
C16_ApplySubstitutes_Original ==
    (last.op = "apply" /\ last.arg.text.t = "str") => SubstitutesWith(last.arg.values)

\* The values supplied, with the current date for today and the current
\* date and time for now when the text holds their literal marker.
Effective(text, values) ==
    LET auto == {name \in {TodayName, NowName} : Includes(text, Marker(name))}
    IN  [name \in DOMAIN values \cup auto |->
            IF name \in auto
            THEN (IF name = TodayName THEN DateText ELSE DateTimeText)
            ELSE values[name]]

\* C16: every occurrence is replaced, left to right, by the non-empty value
\* supplied for its name (for today and now whose literal marker is in the
\* text, the current date or date and time), else by the default declared
\* at that occurrence even if empty, else left untouched; missing holds
\* exactly the names left untouched, each once.
C16_ApplySubstitutes ==
    (last.op = "apply" /\ last.arg.text.t = "str") =>
        SubstitutesWith(Effective(last.arg.text.s, last.arg.values))

\* C16: one occurrence replaced by its value between two left untouched and
\* reported once.
C16_Witness ==
    /\ last.op = "apply"
    /\ Len(last.ret.subs) = 3
    /\ last.ret.missing = <<NameY>>
    /\ last.ret.text = Marker(NameY) \o <<"v">> \o Marker(NameY)

\* C17: when the text holds the literal marker of today or now, every
\* occurrence of that name is replaced by the current date (date and time),
\* whatever values supplies for it, and the name is not reported missing.
C17_AutoValuesOverride ==
    (last.op = "apply" /\ last.arg.text.t = "str") =>
        \A name \in {TodayName, NowName} :
            Includes(last.arg.text.s, Marker(name)) =>
                /\ \A i \in 1..Len(last.ret.subs) :
                      last.ret.subs[i].name = name =>
                          last.ret.subs[i].by =
                              (IF name = TodayName THEN DateText ELSE DateTimeText)
                /\ \A i \in 1..Len(last.ret.missing) : last.ret.missing[i] # name

\* C17: the text holds the marker of today and values supplies a non-empty
\* today.
C17_Witness ==
    /\ last.op = "apply"
    /\ last.arg.text.t = "str"
    /\ Includes(last.arg.text.s, Marker(TodayName))
    /\ TodayName \in DOMAIN last.arg.values
    /\ last.arg.values[TodayName] # <<>>
    /\ Includes(last.ret.text, DateText)

\* The rules of the validator that a data object violates, each by the
\* error it calls for.  A falsy tags value counts as no tags.
ViolatedRules(d) ==
    (IF TitleMissing(d.title) THEN {"Title is required"} ELSE {})
    \cup (IF d.title.t = "str" /\ Len(d.title.s) > MaxTitleLength
          THEN {"Title must be less than 200 characters"} ELSE {})
    \cup (IF d.content.t = "str" /\ Len(d.content.s) > MaxContentLength
          THEN {"Content must be less than 50,000 characters"} ELSE {})
    \cup (IF Truthy(d.tags) /\ d.tags.t # "arr" THEN {"Tags must be an array"} ELSE {})
    \cup (IF d.tags.t = "arr" /\ Len(d.tags.s) > MaxTags
          THEN {"Maximum 20 tags allowed"} ELSE {})
    \cup (IF d.tags.t = "arr" /\ \E i \in 1..Len(d.tags.s) : d.tags.s[i].t # "str"
          THEN {"Tag must be a string"} ELSE {})
    \cup (IF d.tags.t = "arr" /\ \E i \in 1..Len(d.tags.s) :
                d.tags.s[i].t = "str" /\ Len(d.tags.s[i].s) > MaxTagLength
          THEN {"Tag is too long"} ELSE {})

\* C18: validate returns an error for every rule the data violates, not
\* only the first, and the empty list for valid data.
C18_ValidateReturnsAllErrors ==
    last.op = "validate" =>
        {last.ret[i] : i \in 1..Len(last.ret)} = ViolatedRules(last.arg)

\* C19: in every persisted State every record has updatedAt >= createdAt,
\* after any sequence of create, update, delete and batch import, with or
\* without createdAt in the items.
C19_UpdatedNotBeforeCreated ==
    stored.kind = "json" =>
        \A i \in 1..Len(stored.prompts) :
            stored.prompts[i].updatedAt >= stored.prompts[i].createdAt

InvalidPositions(items) == {i \in 1..Len(items) : ItemInvalid(items[i])}

\* Item i of a merge import is a duplicate: its fingerprint is that of a
\* record of the collection before the import or of an earlier valid item
\* as stored.
ItemDuplicate(items, i, before) ==
    LET fp == simpleHash(items[i].title.s \o ToText(items[i].content))
    IN  \/ \E k \in 1..Len(before) :
              simpleHash(before[k].title \o before[k].content) = fp
        \/ \E j \in 1..(i - 1) :
              /\ ~ItemInvalid(items[j])
              /\ simpleHash(Trim(items[j].title.s)
                            \o Trim(Supplied(items[j].content))) = fp

\* C21: a batch import never aborts because of a bad item: it fails only
\* when the one write of the Store fails; the errors list names exactly the
\* invalid items, by 1-based position and in order; every valid item that is
\* no duplicate is stored under a new id; created + skipped counts every
\* item; the Store is written once when created >= 1 and not at all, and
\* left as it was, when created = 0.
C21_ImportSkipsBadItems ==
    last.op = "batch" =>
        LET items == last.arg.items
            res == last.ret.results
            before == IF last.arg.mode = "merge" THEN last.pre ELSE <<>>
        IN  /\ ~last.ok => (res.created >= 1 /\ last.ret.writes = 1
                            /\ last.ret.err = "Failed to save imported prompts")
            /\ Len(res.errors) = Cardinality(InvalidPositions(items))
            /\ \A k \in 1..Len(res.errors) :
                  /\ res.errors[k].index \in InvalidPositions(items)
                  /\ \A j \in 1..(k - 1) : res.errors[j].index < res.errors[k].index
            /\ res.created + res.skipped = Len(items)
            /\ last.ret.writes = (IF res.created >= 1 THEN 1 ELSE 0)
            /\ res.created = 0 => stored = last.preStored
            /\ (last.ok /\ res.created >= 1) =>
                  /\ stored.kind = "json"
                  /\ Len(stored.prompts) = Len(before) + res.created
                  /\ \A i \in 1..Len(items) :
                        (~ItemInvalid(items[i])
                         /\ ~(last.arg.mode = "merge" /\ ItemDuplicate(items, i, before)))
                        => \E k \in 1..Len(stored.prompts) :
                              /\ stored.prompts[k].title = Trim(items[i].title.s)
                              /\ stored.prompts[k].content
                                    = Trim(Supplied(items[i].content))
                              /\ stored.prompts[k].id \notin Ids(last.pre)

\* An import with a bad first item and a valid second one, which is stored.
C21_Witness ==
    /\ last.op = "batch" /\ last.ok
    /\ Len(last.arg.items) = 2
    /\ ItemInvalid(last.arg.items[1])
    /\ last.ret.results.created = 1
    /\ Len(last.ret.results.errors) = 1
    /\ last.ret.results.errors[1].index = 1
    /\ last.ret.writes = 1

\* C22: a manual download of a local backup and a manual JSON or Markdown
\* export change neither Preferences.changeCounter (nor any preference),
\* nor the backup ring buffer, nor the persisted State, nor what a load
\* returns.
C22_DownloadsChangeNothing ==
    last.op \in {"exportJson", "exportMarkdown", "downloadBackup"} =>
        /\ prefs.changeCounter = last.preCounter
        /\ prefs = last.prePrefs
        /\ backups = last.preBackups
        /\ stored = last.preStored
        /\ Loaded = last.pre

\* A backup was downloaded while the counter was above 0 and a State was
\* persisted.
C22_Witness ==
    /\ last.op = "downloadBackup" /\ last.ok
    /\ last.preCounter > 0
    /\ last.preBackups # <<>>
    /\ last.preStored.kind = "json"

\* C23: autoBackupMaybe returns false and leaves the ring buffer, the
\* preferences with changeCounter, and the State as they were, whenever
\* autoBackupEnabled is false and whenever it is true but changeCounter is
\* below autoBackupThreshold.
C23_MaybeBackupNoOp ==
    (/\ last.op = "maybeBackup"
     /\ \/ ~last.prePrefs.autoBackupEnabled
        \/ last.prePrefs.changeCounter < last.prePrefs.autoBackupThreshold)
    => /\ ~last.ok
       /\ ~last.bk.called
       /\ backups = last.preBackups
       /\ prefs = last.prePrefs
       /\ stored = last.preStored
       /\ Loaded = last.pre

\* autoBackupMaybe ran with the switch off and the counter at the threshold
\* or above.
C23_Witness ==
    /\ last.op = "maybeBackup"
    /\ ~last.prePrefs.autoBackupEnabled
    /\ last.prePrefs.changeCounter >= last.prePrefs.autoBackupThreshold
    /\ last.prePrefs.changeCounter > 0

\* The data of a backup holds no prompts sequence: it is not the State a
\* backup of this program holds, and it is no object or its prompts is no
\* array.
LacksPrompts(data) ==
    /\ "prompts" \notin DOMAIN data
    /\ (data.t # "obj" \/ data.s[2].t # "arr")

\* C24: restoreLocalBackup returns false, adds and removes no record, and
\* leaves the ring buffer and the counter as they were, when no backup of
\* the ring buffer has the id and when the data of the backup holds no
\* prompts sequence.
C24_RestoreFailsUnchanged ==
    (/\ last.op = "restore"
     /\ \/ last.arg.index = 0
        \/ LacksPrompts(last.preBackups[last.arg.index].data))
    => /\ ~last.ok
       /\ Loaded = last.pre
       /\ stored = last.preStored
       /\ backups = last.preBackups
       /\ prefs = last.prePrefs

\* A restore of a backup whose data has no prompts sequence, asked for
\* while records were stored.
C24_Witness ==
    /\ last.op = "restore"
    /\ last.arg.index # 0
    /\ LacksPrompts(last.preBackups[last.arg.index].data)
    /\ last.pre # <<>>
    /\ ~last.ok

\* The entries of value.prompts that are object-shaped, in order.
ObjectEntries(v) ==
    IF PromptsOf(v).t = "arr"
    THEN SelectSeq(PromptsOf(v).s, LAMBDA e : Truthy(e) /\ IsObject(e))
    ELSE <<>>

\* Record q is entry e repaired: what e holds is kept, and what it lacks is
\* an id, "Untitled", an empty content, an empty tags sequence, timestamps.
Repaired(q, e) ==
    /\ Truthy(EntryField(q, 1))
    /\ Truthy(EntryField(e, 1)) => EntryField(q, 1) = EntryField(e, 1)
    /\ EntryField(q, 2) = (IF Truthy(EntryField(e, 2)) THEN EntryField(e, 2)
                           ELSE Str(Untitled))
    /\ EntryField(q, 3) = (IF Truthy(EntryField(e, 3)) THEN EntryField(e, 3)
                           ELSE Str(<<>>))
    /\ EntryField(q, 4) = (IF EntryField(e, 4).t = "arr" THEN EntryField(e, 4)
                           ELSE Arr(<<>>))
    /\ Truthy(EntryField(q, 5)) /\ EntryField(q, 5).t = "num"
    /\ Truthy(EntryField(q, 6)) /\ EntryField(q, 6).t = "num"
    /\ Truthy(EntryField(e, 5)) => EntryField(q, 5) = EntryField(e, 5)
    /\ Truthy(EntryField(e, 6)) => EntryField(q, 6) = EntryField(e, 6)

\* C25: in every state of the program, migrate applied to a stored value
\* drops the entries of prompts that are not object-shaped and repairs each
\* of the others on its own, so that every record of its output has an id,
\* a non-empty title, a content, a tags sequence, createdAt and updatedAt;
\* applied to a value that is no object it returns the default State,
\* whose prompts sequence is empty.
C25_MigrateRepairs ==
    \A v \in MigrateInputs :
        LET out == PromptsOf(migrate(World, v).value)
        IN  /\ out.t = "arr"
            /\ IF ~Truthy(v) \/ ~IsObject(v)
               THEN out.s = <<>>
               ELSE /\ Len(out.s) = Len(ObjectEntries(v))
                    /\ \A i \in 1..Len(out.s) : Repaired(out.s[i], ObjectEntries(v)[i])

\* C26: when the automatic backup ran and storing its snapshot in the ring
\* buffer failed (saveLocalBackup returned null), changeCounter keeps the
\* value it had, so that the backup is attempted again.
C26_ResetOnlyWhenStored ==
    (last.bk.auto /\ ~last.bk.saved) => prefs.changeCounter = last.preCounter

\* The last operation restored a backup that holds the collection as it
\* was when the restore began: its snapshot, with no mutation since.
RestoredSnapshot ==
    /\ last.op = "restore"
    /\ last.arg.index # 0
    /\ "prompts" \in DOMAIN last.preBackups[last.arg.index].data
    /\ last.preBackups[last.arg.index].data.prompts = last.pre

\* The (title, content, tags, createdAt) of the records, in order.
Kept(ps) ==
    [i \in 1..Len(ps) |->
        [title |-> ps[i].title, content |-> ps[i].content, tags |-> ps[i].tags,
         createdAt |-> ps[i].createdAt]]

\* C27: after a ring-buffer snapshot of a State built through create,
\* update and import is restored with no mutation in between, in merge or
\* in replace mode, the collection holds the same sequence of (title,
\* content, tags, createdAt) as before the restore.
C27_RestoreRoundTrip ==
    (RestoredSnapshot /\ last.ok) => Kept(Loaded) = Kept(last.pre)

\* The names of a list of parsed placeholders.
ParsedNames(list) == {list[k].name : k \in 1..Len(list)}

\* C28: for every content string, a name parsePlaceholders reports with
\* hasDefault = true is not in the missing list of
\* applyPlaceholders(content, {}), and every name in that missing list is a
\* name parsePlaceholders returns.
C28_ParseAndApplyAgree ==
    (last.op = "apply" /\ DOMAIN last.arg.values = {}) =>
        LET list == parsePlaceholders(last.arg.text)
            missing == {last.ret.missing[k] : k \in 1..Len(last.ret.missing)}
        IN  /\ \A k \in 1..Len(list) : list[k].hasDefault => list[k].name \notin missing
            /\ missing \subseteq ParsedNames(list)

\* C29: when a delete confirmation or an import dialog is pending while
\* other operations complete, every operation that reports success is in
\* the persisted State afterwards: the confirmed delete removes its record
\* from the collection as it is when the dialog is resolved, the merge
\* import appends to it, the replace import leaves exactly what it created,
\* and a form submitted while a dialog is open changes no other record.
C29_NoLostUpdate ==
    /\ (last.op = "confirm" /\ last.ok) =>
          /\ stored.kind = "json"
          /\ Loaded = SelectSeq(last.pre, LAMBDA p : p.id # last.arg.promptId)
    /\ (last.op = "import" /\ last.ok) =>
          /\ stored.kind = "json"
          /\ last.ret.created >= 1
          /\ IF last.arg.mode = "merge"
             THEN /\ Len(Loaded) = Len(last.pre) + last.ret.created
                  /\ SubSeq(Loaded, 1, Len(last.pre)) = last.pre
             ELSE Len(Loaded) = last.ret.created
    /\ (last.op = "submit" /\ last.ok /\ ui.dialog.kind # "none") =>
          /\ stored.kind = "json"
          /\ Len(Loaded) = Len(last.pre) + (IF last.arg.editId = 0 THEN 1 ELSE 0)
          /\ \A i \in 1..Len(last.pre) :
                last.pre[i].id # last.arg.editId => Loaded[i] = last.pre[i]

\* C29 witness: a delete is confirmed and succeeds after a prompt was
\* created while its dialog was open, and that prompt is still stored.
C29_Witness ==
    /\ last.op = "confirm" /\ last.ok
    /\ Len(last.pre) = Len(last.arg.seen) + 1
    /\ Len(Loaded) = Len(last.arg.seen)
    /\ Loaded # <<>>
    /\ \A i \in 1..Len(last.arg.seen) : last.arg.seen[i].id # Loaded[Len(Loaded)].id

\* C30: after any number of resets one click on a tag filter button
\* toggles the tag in selectedTags exactly once, and one click on a card's
\* delete button starts exactly one confirmation.
C30_OneClickOneEffect ==
    /\ last.op = "clickTag" =>
          ui.selectedTags = handleTagToggle(last.arg.selectedTags, last.arg.tag)
    /\ last.op = "clickDelete" => last.ret.started = 1

=========================================================================
